---------------------------- MODULE Spec2Model ----------------------------
(***************************************************************************)
(* UTM governance / CAC engine: the in-memory DataStore, the attribution   *)
(* calculator (AttributionService), the normalization engine               *)
(* (NormalizationService), the channel mapper (SourceMappingService) and   *)
(* the metrics aggregator (MetricsService), modelled from the TypeScript   *)
(* sources.                                                                *)
(*                                                                         *)
(* Numbers are JavaScript doubles.  They are modelled as exact fractions   *)
(* n/d in lowest terms, extended with the three non-finite doubles the     *)
(* arithmetic of the code can produce: d = 0 encodes NaN (n = 0),          *)
(* +Infinity (n = 1) and -Infinity (n = -1).  Rounding of the last bit is  *)
(* not modelled; underflow to 0 and overflow to Infinity of Math.pow are.  *)
(***************************************************************************)
EXTENDS Integers, Sequences, FiniteSets, TLC

VARIABLES
    utmRecords,          \* DataStore.utmRecords, in Map insertion order
    attributionEvents,   \* DataStore.attributionEvents, in Map insertion order
    normalizationRules,  \* DataStore.normalizationRules, in Map insertion order
    sourceMappings,      \* DataStore.sourceMappings, in Map insertion order
    channelCosts,        \* DataStore.channelCosts, in Map insertion order
    now,                 \* the wall clock read by new Date(), in days
    calls,               \* number of attribution calls since the last clear()
    last,                \* the most recent service call: arguments and result
    initialized,         \* hubspotService.isInitialized()
    requests             \* the POST /api/utm requests received: suspended or answered

vars == <<utmRecords, attributionEvents, normalizationRules, sourceMappings,
          channelCosts, now, calls, last, initialized, requests>>

(***************************************************************************)
(* Bounds of the exploration.                                              *)
(***************************************************************************)
MaxRecords == 2
MaxCalls == 2

None == "undefined"

Revenues == {100}
\* clock readings, in days (whole weeks, as the touchpoint timestamps are)
Nows == {7, 14}

\* (source, sourceDetail, channel) classifications a stored touchpoint carries
GoogleAds == [source |-> "Google Ads", sourceDetail |-> "Search", channel |-> "Paid Search"]
FacebookPaid == [source |-> "Facebook", sourceDetail |-> "Paid Social", channel |-> "Paid Social"]

\* the touchpoints that are ingested: contact, classification, timestamp
RecordInputs ==
    { <<"contact-1", GoogleAds, 0>>, <<"contact-1", FacebookPaid, 7>>,
      <<"contact-1", GoogleAds, 7>>, <<"contact-2", FacebookPaid, 0>> }

(***************************************************************************)
(* Doubles.                                                                *)
(***************************************************************************)
Abs(x) == IF x < 0 THEN -x ELSE x

RECURSIVE GCD(_, _)
GCD(a, b) == IF b = 0 THEN a ELSE GCD(b, a % b)

\* the fraction n/d (d # 0) in lowest terms with a positive denominator
Rat(n, d) ==
    LET g == GCD(Abs(n), Abs(d))
        s == IF d < 0 THEN -1 ELSE 1
    IN  [n |-> s * (n \div g), d |-> s * (d \div g)]

Num(i) == [n |-> i, d |-> 1]
NaN == [n |-> 0, d |-> 0]
Infinity == [n |-> 1, d |-> 0]

IsNaN(x) == x.d = 0 /\ x.n = 0
IsFinite(x) == x.d # 0
Sign(x) == IF x.n > 0 THEN 1 ELSE IF x.n < 0 THEN -1 ELSE 0

\* x > 0 as JavaScript evaluates it: false for NaN
GtZero(x) == ~IsNaN(x) /\ x.n > 0

\* x + y
FAdd(x, y) ==
    IF IsNaN(x) \/ IsNaN(y) THEN NaN
    ELSE IF ~IsFinite(x) /\ ~IsFinite(y) THEN (IF x.n = y.n THEN x ELSE NaN)
    ELSE IF ~IsFinite(x) THEN x
    ELSE IF ~IsFinite(y) THEN y
    ELSE Rat(x.n * y.d + y.n * x.d, x.d * y.d)

\* x * y
FMul(x, y) ==
    IF IsNaN(x) \/ IsNaN(y) THEN NaN
    ELSE IF ~IsFinite(x) \/ ~IsFinite(y)
         THEN (IF Sign(x) * Sign(y) = 0 THEN NaN
               ELSE [n |-> Sign(x) * Sign(y), d |-> 0])
    ELSE Rat(x.n * y.n, x.d * y.d)

\* x / y
FDiv(x, y) ==
    IF IsNaN(x) \/ IsNaN(y) THEN NaN
    ELSE IF ~IsFinite(x) /\ ~IsFinite(y) THEN NaN
    ELSE IF ~IsFinite(x) THEN [n |-> Sign(x) * (IF y.n < 0 THEN -1 ELSE 1), d |-> 0]
    ELSE IF ~IsFinite(y) THEN Num(0)
    ELSE IF y.n = 0 THEN (IF x.n = 0 THEN NaN ELSE [n |-> Sign(x), d |-> 0])
    ELSE Rat(x.n * y.d, x.d * y.n)

\* x <= y for finite x, y
FLeq(x, y) == x.n * y.d <= y.n * x.d

RECURSIVE FSum(_)
\* values.reduce((sum, v) => sum + v, 0)
FSum(values) ==
    IF values = <<>> THEN Num(0)
    ELSE FAdd(FSum(SubSeq(values, 1, Len(values) - 1)), values[Len(values)])

RECURSIVE Pow2(_)
Pow2(k) == IF k = 0 THEN 1 ELSE 2 * Pow2(k - 1)

\* exponents of the smallest subnormal and of the largest finite double
DoubleMinExp == 1074
DoubleMaxExp == 1023

\* Math.pow(0.5, x) for an integral x: exact while 2^-x is a double,
\* 0 below the smallest subnormal, Infinity above the largest double
Pow05(x) ==
    CASE x.d = 1 /\ x.n > DoubleMinExp -> Num(0)
      [] x.d = 1 /\ x.n < -DoubleMaxExp -> Infinity
      [] x.d = 1 /\ x.n >= 0 /\ x.n <= DoubleMinExp -> Rat(1, Pow2(x.n))
      [] x.d = 1 /\ x.n < 0 /\ x.n >= -DoubleMaxExp -> Num(Pow2(-x.n))

(***************************************************************************)
(* Sequence helpers (Array.prototype.filter / map / sort).                 *)
(***************************************************************************)
RECURSIVE InsertSorted(_, _)
\* a keyed entry <<key, element>> goes behind every entry whose key is not greater
InsertSorted(x, s) ==
    IF s = <<>> THEN <<x>>
    ELSE IF x[1] < Head(s)[1] THEN <<x>> \o s
         ELSE <<Head(s)>> \o InsertSorted(x, Tail(s))

RECURSIVE SortKeyed(_)
SortKeyed(s) ==
    IF s = <<>> THEN <<>>
    ELSE InsertSorted(s[Len(s)], SortKeyed(SubSeq(s, 1, Len(s) - 1)))

\* Array.prototype.sort((a, b) => key(a) - key(b)), keys[i] being the key of
\* s[i]: ascending in the key, and stable, so elements with equal keys keep
\* their order
StableSort(s, keys) ==
    LET keyed == [i \in 1..Len(s) |-> <<keys[i], s[i]>>]
        sorted == SortKeyed(keyed)
    IN  [i \in 1..Len(s) |-> sorted[i][2]]

(***************************************************************************)
(* DataStore: touchpoints and attribution events.                          *)
(***************************************************************************)
\* a fresh randomUUID() for a collection that holds the given entries
FreshId(coll) == Len(coll) + 1

\* Map.set(entry.id, entry): replaces in place, else appends
MapSet(coll, entry) ==
    IF \E i \in 1..Len(coll) : coll[i].id = entry.id
    THEN [i \in 1..Len(coll) |-> IF coll[i].id = entry.id THEN entry ELSE coll[i]]
    ELSE Append(coll, entry)

addUTMRecord(records, record) == MapSet(records, record)

addAttributionEvent(events, event) == MapSet(events, event)

getUTMRecordsByContact_unfiltered(records, contactId) ==
    StableSort(records, [i \in 1..Len(records) |-> records[i].timestamp])

getUTMRecordsByContact_descending(records, contactId) ==
    LET Test(r) == r.contactId = contactId
        mine == SelectSeq(records, Test)
    IN  StableSort(mine, [i \in 1..Len(mine) |-> -mine[i].timestamp])

getUTMRecordsByContact(records, contactId) ==
    LET Test(r) == r.contactId = contactId
        mine == SelectSeq(records, Test)
    IN  StableSort(mine, [i \in 1..Len(mine) |-> mine[i].timestamp])

getAttributionEventsByContact(events, contactId) ==
    LET Test(e) == e.contactId = contactId
    IN  SelectSeq(events, Test)

(***************************************************************************)
(* AttributionService.                                                     *)
(***************************************************************************)
Models == {"first_touch", "last_touch", "linear", "time_decay"}

\* an absent timeDecayHalfLife; like 0 and NaN it is falsy in (h || 7)
NoHalfLife == NaN

\* half-lives in days a request may carry: absent, a tiny one, a negative one
HalfLives == {NoHalfLife, Rat(1, 2048), Num(-7)}

\* the configurations a caller passes
Configs ==
    [model : Models \ {"time_decay"}, timeDecayHalfLife : {NoHalfLife}]
    \cup [model : {"time_decay"}, timeDecayHalfLife : HalfLives]

DefaultHalfLife == 7

defaultConfig_firstTouch ==
    [model |-> "first_touch", timeDecayHalfLife |-> Num(DefaultHalfLife)]

defaultConfig == [model |-> "last_touch", timeDecayHalfLife |-> Num(DefaultHalfLife)]

firstTouchWeights(n) == [i \in 1..n |-> IF i = 1 THEN Num(1) ELSE Num(0)]

lastTouchWeights(n) == [i \in 1..n |-> IF i = n THEN Num(1) ELSE Num(0)]

linearWeights_offByOne(n) == [i \in 1..n |-> Rat(1, n + 1)]

linearWeights(n) == IF n = 0 THEN <<>> ELSE [i \in 1..n |-> Rat(1, n)]

\* ageMs / halfLifeMs: both carry the factor 24*60*60*1000, which cancels
timeDecayWeights(touchpoints, halfLifeDays, t) ==
    LET n == Len(touchpoints)
        rawWeights == [i \in 1..n |->
                          Pow05(FDiv(Num(t - touchpoints[i].timestamp), halfLifeDays))]
        totalWeight == FSum(rawWeights)
    IN  IF n = 0 THEN <<>> ELSE [i \in 1..n |-> FDiv(rawWeights[i], totalWeight)]

\* config.timeDecayHalfLife || 7
HalfLifeOrDefault(h) == IF h = NoHalfLife \/ h = Num(0) THEN Num(DefaultHalfLife) ELSE h

calculateWeights(touchpoints, config, t) ==
    LET n == Len(touchpoints)
    IN  CASE config.model = "first_touch" -> firstTouchWeights(n)
          [] config.model = "last_touch" -> lastTouchWeights(n)
          [] config.model = "linear" -> linearWeights(n)
          [] config.model = "time_decay" ->
                timeDecayWeights(touchpoints, HalfLifeOrDefault(config.timeDecayHalfLife), t)
          [] OTHER -> lastTouchWeights(n)

NewEvent_scaledRevenue(id, contactId, dealId, touchpoint, config, weight, revenue, t) ==
    [id |-> id, contactId |-> contactId, dealId |-> dealId,
     utmRecordId |-> touchpoint.id, channel |-> touchpoint.channel,
     source |-> touchpoint.source, sourceDetail |-> touchpoint.sourceDetail,
     attributionModel |-> config.model, attributionWeight |-> weight,
     revenue |-> FMul(revenue, weight), timestamp |-> t]

\* the event literal of createAttribution
NewEvent_channelFromSource(id, contactId, dealId, touchpoint, config, weight, revenue, t) ==
    [id |-> id, contactId |-> contactId, dealId |-> dealId,
     utmRecordId |-> touchpoint.id, channel |-> touchpoint.source,
     source |-> touchpoint.source, sourceDetail |-> touchpoint.sourceDetail,
     attributionModel |-> config.model, attributionWeight |-> weight,
     revenue |-> revenue, timestamp |-> t]

NewEvent(id, contactId, dealId, touchpoint, config, weight, revenue, t) ==
    [id |-> id, contactId |-> contactId, dealId |-> dealId,
     utmRecordId |-> touchpoint.id, channel |-> touchpoint.channel,
     source |-> touchpoint.source, sourceDetail |-> touchpoint.sourceDetail,
     attributionModel |-> config.model, attributionWeight |-> weight,
     revenue |-> revenue, timestamp |-> t]

RECURSIVE EmitEvents(_, _, _, _, _, _, _, _, _)
\* the loop of createAttribution from index i on; events are the ones pushed
\* so far, stored is the number of entries of the store when the call began
EmitEvents(i, touchpoints, weights, events, stored, contactId, dealId, revenue, cfgT) ==
    IF i > Len(touchpoints) THEN events
    ELSE IF GtZero(weights[i])
         THEN EmitEvents(i + 1, touchpoints, weights,
                  Append(events,
                      NewEvent(stored + Len(events) + 1, contactId, dealId,
                               touchpoints[i], cfgT[1], weights[i], revenue, cfgT[2])),
                  stored, contactId, dealId, revenue, cfgT)
         ELSE EmitEvents(i + 1, touchpoints, weights, events, stored,
                         contactId, dealId, revenue, cfgT)

RECURSIVE StoreAll(_, _)
\* dataStore.addAttributionEvent for each emitted event, in order
StoreAll(store, events) ==
    IF events = <<>> THEN store
    ELSE StoreAll(addAttributionEvent(store, Head(events)), Tail(events))

\* createAttribution: the list it returns and the event collection it leaves
createAttribution(contactId, dealId, revenue, config, t) ==
    LET touchpoints == getUTMRecordsByContact(utmRecords, contactId)
        weights == calculateWeights(touchpoints, config, t)
        events == IF Len(touchpoints) = 0 THEN <<>>
                  ELSE EmitEvents(1, touchpoints, weights, <<>>, Len(attributionEvents),
                                  contactId, dealId, revenue, <<config, t>>)
    IN  [returned |-> events, store |-> StoreAll(attributionEvents, events)]

\* existingEvents.find(e => e.dealId)?.dealId
FirstDealId(events) ==
    LET Test(e) == e.dealId # None
        withDeal == SelectSeq(events, Test)
    IN  IF withDeal = <<>> THEN None ELSE withDeal[1].dealId

\* events.map(e => e.revenue), events.map(e => e.attributionWeight) and
\* events.map(e => e.revenue * e.attributionWeight)
RevenuesOf(events) == [i \in 1..Len(events) |-> events[i].revenue]
WeightsOf(events) == [i \in 1..Len(events) |-> events[i].attributionWeight]
WeightedRevenuesOf(events) ==
    [i \in 1..Len(events) |-> FMul(events[i].revenue, events[i].attributionWeight)]

impliedRevenue_weighted(existingEvents) ==
    FDiv(FSum(WeightedRevenuesOf(existingEvents)), FSum(WeightsOf(existingEvents)))

\* the totalRevenue recalculateAttribution hands to createAttribution
impliedRevenue(existingEvents) ==
    FDiv(FSum(RevenuesOf(existingEvents)), FSum(WeightsOf(existingEvents)))

recalculateAttribution_replacing(contactId, newConfig, t) ==
    LET existingEvents == getAttributionEventsByContact(attributionEvents, contactId)
        totalRevenue == impliedRevenue(existingEvents)
        dealId == FirstDealId(existingEvents)
        created == createAttribution(contactId, dealId, totalRevenue, newConfig, t)
        Others(e) == e.contactId # contactId
    IN  IF Len(existingEvents) = 0
        THEN [returned |-> <<>>, store |-> attributionEvents, revenue |-> Num(0)]
        ELSE [returned |-> created.returned,
              store |-> SelectSeq(attributionEvents, Others) \o created.returned,
              revenue |-> totalRevenue]

\* recalculateAttribution: the list it returns, the event collection it
\* leaves, and the revenue it passes on to createAttribution
recalculateAttribution(contactId, newConfig, t) ==
    LET existingEvents == getAttributionEventsByContact(attributionEvents, contactId)
        totalRevenue == impliedRevenue(existingEvents)
        dealId == FirstDealId(existingEvents)
        created == createAttribution(contactId, dealId, totalRevenue, newConfig, t)
    IN  IF Len(existingEvents) = 0
        THEN [returned |-> <<>>, store |-> attributionEvents, revenue |-> Num(0)]
        ELSE [returned |-> created.returned, store |-> created.store,
              revenue |-> totalRevenue]

\* the createAttribution requests that are made: every configuration (and
\* none) for contact-1, and two requests that carry a deal id
CreateRequests ==
    [contactId : {"contact-1"}, dealId : {None}, configGiven : {TRUE}, config : Configs]
    \cup { [contactId |-> "contact-1", dealId |-> None, configGiven |-> FALSE,
            config |-> defaultConfig],
          [contactId |-> "contact-1", dealId |-> "deal-1", configGiven |-> TRUE,
            config |-> [model |-> "first_touch", timeDecayHalfLife |-> NoHalfLife]],
          [contactId |-> "contact-2", dealId |-> "deal-1", configGiven |-> TRUE,
            config |-> [model |-> "linear", timeDecayHalfLife |-> NoHalfLife]] }

\* the recalculateAttribution requests that are made
RecalculateRequests ==
    [contactId : {"contact-1"},
     config : [model : {"first_touch", "linear"}, timeDecayHalfLife : {NoHalfLife}]
              \cup [model : {"time_decay"}, timeDecayHalfLife : {NoHalfLife, Rat(1, 2048)}]]
    \cup { [contactId |-> "contact-2",
            config |-> [model |-> "last_touch", timeDecayHalfLife |-> NoHalfLife]] }

(***************************************************************************)
(* Strings are sequences of one-character strings.                         *)
(***************************************************************************)
UpperCase == <<"A", "B", "C", "D", "E", "F", "G", "H", "I", "J", "K", "L", "M",
               "N", "O", "P", "Q", "R", "S", "T", "U", "V", "W", "X", "Y", "Z">>
LowerCase == <<"a", "b", "c", "d", "e", "f", "g", "h", "i", "j", "k", "l", "m",
               "n", "o", "p", "q", "r", "s", "t", "u", "v", "w", "x", "y", "z">>
Digits == {"0", "1", "2", "3", "4", "5", "6", "7", "8", "9"}
\* the characters \s matches, as far as inputs carry them
WhitespaceChars == {" ", "\t"}

ToLowerChar(c) ==
    IF \E i \in 1..Len(UpperCase) : UpperCase[i] = c
    THEN LowerCase[CHOOSE i \in 1..Len(UpperCase) : UpperCase[i] = c]
    ELSE c

\* String.prototype.toLowerCase
ToLowerCase(str) == [i \in 1..Len(str) |-> ToLowerChar(str[i])]

\* String.prototype.startsWith / endsWith / includes
StartsWith(str, part) == Len(part) <= Len(str) /\ SubSeq(str, 1, Len(part)) = part
EndsWith(str, part) ==
    Len(part) <= Len(str) /\ SubSeq(str, Len(str) - Len(part) + 1, Len(str)) = part
Includes(str, part) ==
    \E i \in 1..(Len(str) - Len(part) + 1) : SubSeq(str, i, i + Len(part) - 1) = part

\* new RegExp(pattern, 'i').test(value) for the patterns rules carry here:
\* literal characters with an optional leading ^ and trailing $; a pattern
\* with an unterminated group does not compile, and the caller's catch
\* turns the SyntaxError into a non-match
RegexTest(pattern, value) ==
    LET anchoredStart == pattern # <<>> /\ Head(pattern) = "^"
        anchoredEnd == pattern # <<>> /\ pattern[Len(pattern)] = "$"
        body == SubSeq(pattern, IF anchoredStart THEN 2 ELSE 1,
                       IF anchoredEnd THEN Len(pattern) - 1 ELSE Len(pattern))
        literal == ToLowerCase(body)
        subject == ToLowerCase(value)
    IN  IF \E i \in 1..Len(pattern) : pattern[i] = "(" THEN FALSE
        ELSE IF anchoredStart /\ anchoredEnd THEN subject = literal
        ELSE IF anchoredStart THEN StartsWith(subject, literal)
        ELSE IF anchoredEnd THEN EndsWith(subject, literal)
        ELSE Includes(subject, literal)

RECURSIVE TrimStart(_)
TrimStart(str) ==
    IF str # <<>> /\ Head(str) \in WhitespaceChars THEN TrimStart(Tail(str)) ELSE str

RECURSIVE TrimEnd(_)
TrimEnd(str) ==
    IF str # <<>> /\ str[Len(str)] \in WhitespaceChars
    THEN TrimEnd(SubSeq(str, 1, Len(str) - 1))
    ELSE str

\* String.prototype.trim
Trim(str) == TrimEnd(TrimStart(str))

RECURSIVE ReplaceWhitespaceRuns(_)
\* .replace(/\s+/g, '_')
ReplaceWhitespaceRuns(str) ==
    IF str = <<>> THEN <<>>
    ELSE IF Head(str) \in WhitespaceChars
         THEN <<"_">> \o ReplaceWhitespaceRuns(TrimStart(str))
         ELSE <<Head(str)>> \o ReplaceWhitespaceRuns(Tail(str))

\* .replace(/[^a-z0-9_-]/g, '')
RemoveSpecialCharacters(str) ==
    LET Kept(c) == \/ \E i \in 1..Len(LowerCase) : LowerCase[i] = c
                   \/ c \in Digits
                   \/ c \in {"_", "-"}
    IN  SelectSeq(str, Kept)

(***************************************************************************)
(* DataStore: normalization rules.  NormalizationService.                  *)
(***************************************************************************)
Fields == {"utm_source", "utm_medium", "utm_campaign", "utm_term", "utm_content"}
MatchTypes == {"exact", "contains", "regex", "startsWith", "endsWith"}

\* UTMParams is a function from the fields that are present to their values;
\* value && ... : the field is present and its value is not the empty string
Truthy(params, field) == field \in DOMAIN params /\ params[field] # <<>>

\* randomUUID() returns an id no stored entry has
IsFreshId(coll, id) == \A i \in 1..Len(coll) : coll[i].id # id

addNormalizationRule(rules, rule) == MapSet(rules, rule)

getAllNormalizationRules_ascending(rules) ==
    LET Active(r) == r.isActive
        active == SelectSeq(rules, Active)
    IN  StableSort(active, [i \in 1..Len(active) |-> active[i].priority])

getAllNormalizationRules_withInactive(rules) ==
    StableSort(rules, [i \in 1..Len(rules) |-> -rules[i].priority])

\* .filter(r => r.isActive).sort((a, b) => b.priority - a.priority)
getAllNormalizationRules(rules) ==
    LET Active(r) == r.isActive
        active == SelectSeq(rules, Active)
    IN  StableSort(active, [i \in 1..Len(active) |-> -active[i].priority])

\* { ...existing, ...updates }, stored under the same key
updateNormalizationRule(rules, id, updates) ==
    [i \in 1..Len(rules) |->
        IF rules[i].id = id
        THEN [k \in DOMAIN rules[i] |->
                 IF k \in DOMAIN updates THEN updates[k] ELSE rules[i][k]]
        ELSE rules[i]]

deleteNormalizationRule(rules, id) ==
    LET Others(r) == r.id # id
    IN  SelectSeq(rules, Others)

matchesRule(value, rule) ==
    LET lowerValue == ToLowerCase(value)
        lowerMatch == ToLowerCase(rule.matchValue)
    IN  CASE rule.matchType = "exact" -> lowerValue = lowerMatch
          [] rule.matchType = "contains" -> Includes(lowerValue, lowerMatch)
          [] rule.matchType = "startsWith" -> StartsWith(lowerValue, lowerMatch)
          [] rule.matchType = "endsWith" -> EndsWith(lowerValue, lowerMatch)
          [] rule.matchType = "regex" -> RegexTest(rule.matchValue, value)
          [] OTHER -> FALSE

RECURSIVE ApplyRules_firstMatchWins(_, _)
ApplyRules_firstMatchWins(rules, normalized) ==
    IF rules = <<>> THEN normalized
    ELSE LET rule == Head(rules)
             field == rule.field
             OtherField(r) == r.field # field
         IN  IF Truthy(normalized, field) /\ matchesRule(normalized[field], rule)
             THEN ApplyRules_firstMatchWins(SelectSeq(Tail(rules), OtherField),
                      [normalized EXCEPT ![field] = rule.normalizedValue])
             ELSE ApplyRules_firstMatchWins(Tail(rules), normalized)

RECURSIVE ApplyRules(_, _)
\* the loop of normalize over the rules that are left
ApplyRules(rules, normalized) ==
    IF rules = <<>> THEN normalized
    ELSE LET rule == Head(rules)
             field == rule.field
         IN  IF Truthy(normalized, field) /\ matchesRule(normalized[field], rule)
             THEN ApplyRules(Tail(rules),
                             [normalized EXCEPT ![field] = rule.normalizedValue])
             ELSE ApplyRules(Tail(rules), normalized)

RECURSIVE FiredRules(_, _)
\* the ids of the rules whose assignment the loop executes, in loop order
FiredRules(rules, normalized) ==
    IF rules = <<>> THEN <<>>
    ELSE LET rule == Head(rules)
             field == rule.field
         IN  IF Truthy(normalized, field) /\ matchesRule(normalized[field], rule)
             THEN <<rule.id>> \o FiredRules(Tail(rules),
                                    [normalized EXCEPT ![field] = rule.normalizedValue])
             ELSE FiredRules(Tail(rules), normalized)

CleanValue_unfiltered(value) == ReplaceWhitespaceRuns(Trim(ToLowerCase(value)))

\* one cleaned value
CleanValue(value) ==
    RemoveSpecialCharacters(ReplaceWhitespaceRuns(Trim(ToLowerCase(value))))

cleanupParams(params) ==
    [field \in {f \in DOMAIN params : Truthy(params, f)} |-> CleanValue(params[field])]

\* the object normalize returns, and its local `normalized` before cleanup
normalize(params, rules) ==
    LET normalized == ApplyRules(getAllNormalizationRules(rules), params)
    IN  [normalized |-> normalized, result |-> cleanupParams(normalized),
         fired |-> FiredRules(getAllNormalizationRules(rules), params)]

(***************************************************************************)
(* The record of the most recent call.                                     *)
(***************************************************************************)
NoCall ==
    [op |-> "none", contactId |-> None, configGiven |-> FALSE,
     config |-> defaultConfig, revenue |-> Num(0), at |-> 0,
     touchpoints |-> <<>>, weights |-> <<>>, before |-> <<>>, existing |-> <<>>,
     returned |-> <<>>]

CallRecord(op, contactId, configGiven, config, revenue, existing, returned) ==
    LET touchpoints == getUTMRecordsByContact(utmRecords, contactId)
    IN  [op |-> op, contactId |-> contactId, configGiven |-> configGiven,
         config |-> config, revenue |-> revenue, at |-> now,
         touchpoints |-> touchpoints,
         weights |-> calculateWeights(touchpoints, config, now),
         before |-> attributionEvents, existing |-> existing, returned |-> returned]

(***************************************************************************)
(* Operations.                                                             *)
(***************************************************************************)
Init ==
    /\ utmRecords = <<>>
    /\ attributionEvents = <<>>
    /\ normalizationRules = <<>>
    /\ sourceMappings = <<>>
    /\ channelCosts = <<>>
    /\ now = 7
    /\ calls = 0
    /\ last = NoCall
    /\ initialized = FALSE
    /\ requests = <<>>

\* dataStore.addUTMRecord of a classified touchpoint
AddUTMRecord ==
    /\ Len(utmRecords) < MaxRecords
    /\ \E in \in RecordInputs :
          utmRecords' = addUTMRecord(utmRecords,
              [id |-> FreshId(utmRecords), contactId |-> in[1],
               source |-> in[2].source, sourceDetail |-> in[2].sourceDetail,
               channel |-> in[2].channel, timestamp |-> in[3]])
    /\ last' = NoCall
    /\ UNCHANGED <<sourceMappings, channelCosts>>
    /\ UNCHANGED <<attributionEvents, normalizationRules, now, calls>>
    /\ UNCHANGED <<initialized, requests>>

\* time passes
Tick ==
    /\ \E t \in Nows : t > now /\ now' = t
    /\ last' = NoCall
    /\ UNCHANGED <<sourceMappings, channelCosts>>
    /\ UNCHANGED <<utmRecords, attributionEvents, normalizationRules, calls>>
    /\ UNCHANGED <<initialized, requests>>

\* attributionService.createAttribution(contactId, dealId, revenue, config?)
CreateAttribution ==
    /\ calls < MaxCalls
    /\ \E req \in CreateRequests, revenue \in Revenues :
          LET call == createAttribution(req.contactId, req.dealId, Num(revenue),
                                        req.config, now)
          IN  /\ attributionEvents' = call.store
              /\ last' = CallRecord("createAttribution", req.contactId, req.configGiven,
                                    req.config, Num(revenue), <<>>, call.returned)
    /\ calls' = calls + 1
    /\ UNCHANGED <<sourceMappings, channelCosts>>
    /\ UNCHANGED <<utmRecords, normalizationRules, now>>
    /\ UNCHANGED <<initialized, requests>>

\* attributionService.recalculateAttribution(contactId, newConfig)
RecalculateAttribution ==
    /\ calls < MaxCalls
    /\ \E req \in RecalculateRequests :
          LET call == recalculateAttribution(req.contactId, req.config, now)
          IN  /\ attributionEvents' = call.store
              /\ last' = CallRecord("recalculateAttribution", req.contactId, TRUE,
                                    req.config, call.revenue,
                                    getAttributionEventsByContact(attributionEvents,
                                                                  req.contactId),
                                    call.returned)
    /\ calls' = calls + 1
    /\ UNCHANGED <<sourceMappings, channelCosts>>
    /\ UNCHANGED <<utmRecords, normalizationRules, now>>
    /\ UNCHANGED <<initialized, requests>>

\* dataStore.clear()
Clear ==
    /\ utmRecords' = <<>>
    /\ attributionEvents' = <<>>
    /\ normalizationRules' = <<>>
    /\ sourceMappings' = <<>>
    /\ channelCosts' = <<>>
    /\ calls' = 0
    /\ last' = NoCall
    /\ UNCHANGED now
    /\ UNCHANGED <<initialized, requests>>

Next ==
    \/ AddUTMRecord
    \/ Tick
    \/ CreateAttribution
    \/ RecalculateAttribution
    \/ Clear

Spec == Init /\ [][Next]_vars

(***************************************************************************)
(* The normalization engine and its rule administration.                   *)
(***************************************************************************)
MaxRules == 2

\* the rules an administrator creates (POST /api/normalization-rules), each
\* with the id randomUUID() gives it
RuleInputs ==
    { [id |-> "norm-1", field |-> "utm_source", matchType |-> "exact", matchValue |-> <<"f", "b">>,
       normalizedValue |-> <<"f", "a", "c", "e", "b", "o", "o", "k">>, priority |-> 10, isActive |-> TRUE],
      [id |-> "norm-2", field |-> "utm_source", matchType |-> "contains", matchValue |-> <<"f", "a", "c", "e">>,
       normalizedValue |-> <<"m", "e", "t", "a">>, priority |-> 5, isActive |-> TRUE],
      [id |-> "norm-3", field |-> "utm_source", matchType |-> "startsWith", matchValue |-> <<"F">>,
       normalizedValue |-> <<"f", "b">>, priority |-> 10, isActive |-> TRUE],
      [id |-> "norm-4", field |-> "utm_source", matchType |-> "regex", matchValue |-> <<"^", "m", "e">>,
       normalizedValue |-> <<"M", "e", "t", "a", " ", "A", "d", "s", "!">>, priority |-> 0, isActive |-> TRUE],
      [id |-> "norm-5", field |-> "utm_source", matchType |-> "regex", matchValue |-> <<"(", "f", "b">>,
       normalizedValue |-> <<"b", "r", "o", "k", "e", "n">>, priority |-> 10, isActive |-> TRUE],
      [id |-> "norm-6", field |-> "utm_medium", matchType |-> "exact", matchValue |-> <<"c", "p", "c">>,
       normalizedValue |-> <<"p", "a", "i", "d">>, priority |-> 10, isActive |-> TRUE],
      [id |-> "norm-7", field |-> "utm_medium", matchType |-> "endsWith", matchValue |-> <<"D">>,
       normalizedValue |-> <<>>, priority |-> 5, isActive |-> TRUE] }

\* the bodies of PUT /api/normalization-rules/:id
RuleUpdates == { [isActive |-> FALSE], [isActive |-> TRUE], [priority |-> 20] }

\* the raw parameters that are normalized
ParamInputs ==
    { [f \in {"utm_source", "utm_medium"} |->
          IF f = "utm_source" THEN <<"f", "b">> ELSE <<"c", "p", "c">>],
      [f \in {"utm_source", "utm_campaign"} |->
          IF f = "utm_source" THEN <<"F", "B">> ELSE <<" ", "S", "u", "m", "m", "e", "r", " ", " ", "S", "a", "l", "e", "!", " ">>],
      [f \in {"utm_source", "utm_medium"} |->
          IF f = "utm_source" THEN <<"f", "-", "1">> ELSE <<"P", "a", "i", "d">>],
      [f \in {"utm_source", "utm_medium"} |->
          IF f = "utm_source" THEN <<>> ELSE <<"C", "P", "C">>],
      [f \in {"utm_source", "utm_campaign"} |->
          IF f = "utm_source" THEN <<"M", "e", "t", "a">> ELSE <<"!", "?">>],
      [f \in {} |-> <<>>] }

\* the record of a deletion: the id that is no longer stored
RuleDeleted(id) == [op |-> "deleteNormalizationRule", id |-> id]

\* POST /api/normalization-rules
AddNormalizationRule ==
    /\ Len(normalizationRules) < MaxRules
    /\ \E in \in RuleInputs :
          /\ IsFreshId(normalizationRules, in.id)
          /\ normalizationRules' = addNormalizationRule(normalizationRules, in)
    /\ last' = NoCall
    /\ UNCHANGED <<sourceMappings, channelCosts>>
    /\ UNCHANGED <<utmRecords, attributionEvents, now, calls>>
    /\ UNCHANGED <<initialized, requests>>

\* PUT /api/normalization-rules/:id for a stored rule
UpdateNormalizationRule ==
    /\ \E i \in 1..Len(normalizationRules), updates \in RuleUpdates :
          normalizationRules' =
              updateNormalizationRule(normalizationRules, normalizationRules[i].id, updates)
    /\ last' = NoCall
    /\ UNCHANGED <<sourceMappings, channelCosts>>
    /\ UNCHANGED <<utmRecords, attributionEvents, now, calls>>
    /\ UNCHANGED <<initialized, requests>>

\* DELETE /api/normalization-rules/:id for a stored rule
DeleteNormalizationRule ==
    /\ \E i \in 1..Len(normalizationRules) :
          /\ normalizationRules' =
                 deleteNormalizationRule(normalizationRules, normalizationRules[i].id)
          /\ last' = RuleDeleted(normalizationRules[i].id)
    /\ UNCHANGED <<sourceMappings, channelCosts>>
    /\ UNCHANGED <<utmRecords, attributionEvents, now, calls>>
    /\ UNCHANGED <<initialized, requests>>

\* normalizationService.normalize(params)
Normalize ==
    /\ \E params \in ParamInputs :
          LET call == normalize(params, normalizationRules)
          IN  last' = [op |-> "normalize", params |-> params,
                       normalized |-> call.normalized, result |-> call.result,
                       fired |-> call.fired,
                       after |-> IF last.op = "deleteNormalizationRule" THEN last.id ELSE None]
    /\ UNCHANGED <<sourceMappings, channelCosts>>
    /\ UNCHANGED <<utmRecords, attributionEvents, normalizationRules, now, calls>>
    /\ UNCHANGED <<initialized, requests>>

NextNorm ==
    \/ AddNormalizationRule
    \/ UpdateNormalizationRule
    \/ DeleteNormalizationRule
    \/ Normalize

SpecNorm == Init /\ [][NextNorm]_vars

(***************************************************************************)
(* Properties of the attribution calculator.                               *)
(***************************************************************************)
\* the stored touchpoints of a contact, read off the collection itself
RecordsOf(contactId) ==
    {utmRecords[i] : i \in {j \in 1..Len(utmRecords) : utmRecords[j].contactId = contactId}}

\* the stored touchpoint an event points at
RecordOfEvent(e) == {r \in RecordsOf(e.contactId) : r.id = e.utmRecordId}

Created == last.op = "createAttribution"
Recalculated == last.op = "recalculateAttribution"

\* C1: the weights of the events emitted by one createAttribution call sum
\* to 1 when the contact has a touchpoint, under every model; with no
\* touchpoint no event is emitted.
C1_WeightsSumToOne ==
    Created =>
        IF RecordsOf(last.contactId) = {}
        THEN last.returned = <<>>
        ELSE FSum(WeightsOf(last.returned)) = Num(1)

\* C2: createAttribution stores and returns exactly one event per touchpoint
\* of strictly positive weight and none for the others; each event copies
\* its touchpoint's id and classification, names the requested model and
\* carries the full revenue; the returned list is exactly what the call
\* added to the store.
C2_OneEventPerPositiveWeight ==
    Created =>
        LET positive == {i \in 1..Len(last.touchpoints) : GtZero(last.weights[i])}
            EventsFor(i) == {k \in 1..Len(last.returned) :
                                last.returned[k].utmRecordId = last.touchpoints[i].id}
        IN  /\ Len(last.returned) = Cardinality(positive)
            /\ \A i \in 1..Len(last.touchpoints) :
                  IF i \in positive
                  THEN /\ Cardinality(EventsFor(i)) = 1
                       /\ \A k \in EventsFor(i) :
                             /\ last.returned[k].channel = last.touchpoints[i].channel
                             /\ last.returned[k].source = last.touchpoints[i].source
                             /\ last.returned[k].sourceDetail =
                                   last.touchpoints[i].sourceDetail
                             /\ last.returned[k].attributionModel = last.config.model
                             /\ last.returned[k].attributionWeight = last.weights[i]
                             /\ last.returned[k].revenue = last.revenue
                             /\ last.returned[k].contactId = last.contactId
                  ELSE EventsFor(i) = {}
            /\ RecordsOf(last.contactId) =
                  {last.touchpoints[i] : i \in 1..Len(last.touchpoints)}
            /\ attributionEvents = last.before \o last.returned

C2_Witness ==
    /\ Created
    /\ Len(last.touchpoints) >= 2
    /\ Len(last.returned) = 1
    /\ last.touchpoints[1].channel # last.touchpoints[2].channel
    /\ Len(attributionEvents) > Len(last.returned)

\* C3: first_touch on n >= 1 touchpoints yields exactly one event, weight 1,
\* on a touchpoint of the contact with the earliest timestamp, whatever the
\* order of ingestion.
C3_FirstTouchEarliest ==
    (Created /\ last.config.model = "first_touch" /\ RecordsOf(last.contactId) # {}) =>
        /\ Len(last.returned) = 1
        /\ last.returned[1].attributionWeight = Num(1)
        /\ RecordOfEvent(last.returned[1]) # {}
        /\ \A r \in RecordOfEvent(last.returned[1]), o \in RecordsOf(last.contactId) :
              r.timestamp <= o.timestamp

\* first_touch ran on touchpoints that were ingested latest first
C3_Witness ==
    /\ Created /\ last.config.model = "first_touch"
    /\ Len(last.returned) = 1
    /\ \E i, j \in 1..Len(utmRecords) :
          /\ i < j
          /\ utmRecords[i].contactId = last.contactId
          /\ utmRecords[j].contactId = last.contactId
          /\ utmRecords[i].timestamp > utmRecords[j].timestamp
          /\ last.returned[1].utmRecordId = utmRecords[j].id

\* C4: last_touch on n >= 1 touchpoints yields exactly one event, weight 1,
\* on a touchpoint of the contact with the latest timestamp, whatever the
\* order of ingestion; a call without a config uses last_touch.
C4_LastTouchLatest ==
    (Created /\ RecordsOf(last.contactId) # {}
       /\ (last.config.model = "last_touch" \/ ~last.configGiven)) =>
        /\ Len(last.returned) = 1
        /\ last.returned[1].attributionModel = "last_touch"
        /\ last.returned[1].attributionWeight = Num(1)
        /\ RecordOfEvent(last.returned[1]) # {}
        /\ \A r \in RecordOfEvent(last.returned[1]), o \in RecordsOf(last.contactId) :
              r.timestamp >= o.timestamp

\* a call without a config ran on touchpoints that were ingested latest first
C4_Witness ==
    /\ Created /\ ~last.configGiven
    /\ Len(last.returned) = 1
    /\ \E i, j \in 1..Len(utmRecords) :
          /\ i < j
          /\ utmRecords[i].contactId = last.contactId
          /\ utmRecords[j].contactId = last.contactId
          /\ utmRecords[i].timestamp > utmRecords[j].timestamp
          /\ last.returned[1].utmRecordId = utmRecords[i].id

\* C5: linear on n >= 1 touchpoints yields exactly n events, one per
\* touchpoint, each of weight 1/n.
C5_LinearEqualShares ==
    (Created /\ last.config.model = "linear" /\ RecordsOf(last.contactId) # {}) =>
        LET n == Cardinality(RecordsOf(last.contactId))
        IN  /\ Len(last.returned) = n
            /\ {last.returned[k].utmRecordId : k \in 1..n} =
                  {r.id : r \in RecordsOf(last.contactId)}
            /\ \A k \in 1..n : last.returned[k].attributionWeight = Rat(1, n)

C5_Witness ==
    /\ Created /\ last.config.model = "linear"
    /\ Len(last.returned) >= 2
    /\ last.returned[1].channel # last.returned[2].channel

\* C6: time_decay weights for n >= 1 touchpoints sum to 1 and the more
\* recent of two touchpoints never gets less weight than the older one, for
\* every half-life the interface accepts.
C6_TimeDecayMonotone ==
    (Created /\ last.config.model = "time_decay" /\ last.touchpoints # <<>>) =>
        /\ FSum(last.weights) = Num(1)
        /\ \A i, j \in 1..Len(last.touchpoints) :
              last.touchpoints[i].timestamp >= last.touchpoints[j].timestamp =>
                  /\ IsFinite(last.weights[i]) /\ IsFinite(last.weights[j])
                  /\ FLeq(last.weights[j], last.weights[i])

\* C7: createAttribution for a contact without stored touchpoints returns
\* the empty list and leaves the attribution events as they were.
C7_NoTouchpointsNoEvents ==
    (Created /\ RecordsOf(last.contactId) = {}) =>
        /\ last.returned = <<>>
        /\ attributionEvents = last.before

\* a contact unknown to a store that holds touchpoints and events of another
C7_Witness ==
    /\ Created
    /\ RecordsOf(last.contactId) = {}
    /\ utmRecords # <<>>
    /\ attributionEvents # <<>>

\* C8: recalculateAttribution passes on sum(revenue * weight) / sum(weight)
\* of the contact's existing events; after exactly one createAttribution
\* with revenue R the recalculated events all carry R.
C8_RecalculatedRevenue ==
    (Recalculated /\ last.existing # <<>>) =>
        /\ last.revenue = impliedRevenue_weighted(last.existing)
        /\ calls = 2 =>
              \A k \in 1..Len(last.returned) :
                  last.returned[k].revenue = last.existing[1].revenue

\* C9: recalculateAttribution removes and modifies nothing: the events
\* stored afterwards are those stored before followed by the ones it
\* returns, and with no existing event of the contact it returns the empty
\* list and stores nothing.
C9_RecalculateIsAdditive ==
    Recalculated =>
        /\ attributionEvents = last.before \o last.returned
        /\ getAttributionEventsByContact(attributionEvents, last.contactId) =
              getAttributionEventsByContact(last.before, last.contactId) \o last.returned
        /\ getAttributionEventsByContact(last.before, last.contactId) = <<>> =>
              (last.returned = <<>> /\ attributionEvents = last.before)

\* a recalculation that found events of the contact and added to them
C9_Witness ==
    /\ Recalculated
    /\ last.existing # <<>>
    /\ last.returned # <<>>
    /\ Len(attributionEvents) > Len(last.returned)

C9_WitnessEmpty ==
    /\ Recalculated
    /\ last.existing = <<>>
    /\ RecordsOf(last.contactId) # {}

(***************************************************************************)
(* Properties of the normalization engine.                                 *)
(***************************************************************************)
Normalized == last.op = "normalize"

\* positions, in insertion order, of the stored rules that are active
ActiveRules == {i \in 1..Len(normalizationRules) : normalizationRules[i].isActive}

\* rule i is tried before rule j: higher priority, or equal priority and
\* inserted earlier
TriedBefore(i, j) ==
    \/ normalizationRules[i].priority > normalizationRules[j].priority
    \/ /\ normalizationRules[i].priority = normalizationRules[j].priority
       /\ i < j

\* the k-th rule tried
RuleTried(k) ==
    normalizationRules[CHOOSE i \in ActiveRules :
        Cardinality({j \in ActiveRules : TriedBefore(j, i)}) = k - 1]

RECURSIVE FieldFold(_, _, _)
\* the value of one field after the rules tried k-th and later, from value;
\* only the rules of that field count, and an empty value matches no rule
FieldFold(field, k, value) ==
    IF k > Cardinality(ActiveRules) THEN value
    ELSE IF RuleTried(k).field = field /\ value # <<>> /\ matchesRule(value, RuleTried(k))
         THEN FieldFold(field, k + 1, RuleTried(k).normalizedValue)
         ELSE FieldFold(field, k + 1, value)

RECURSIVE FieldRewrites(_, _, _)
\* how many rules rewrite the field on the way
FieldRewrites(field, k, value) ==
    IF k > Cardinality(ActiveRules) THEN 0
    ELSE IF RuleTried(k).field = field /\ value # <<>> /\ matchesRule(value, RuleTried(k))
         THEN 1 + FieldRewrites(field, k + 1, RuleTried(k).normalizedValue)
         ELSE FieldRewrites(field, k + 1, value)

\* C10: before cleanup, every field holds the left fold of its own rules
\* over its input value, the active rules taken by descending priority and,
\* within a priority, in insertion order, each tested against the current
\* value and overwriting it on a match, with no early exit; no field appears
\* or disappears, and no rule touches another field.
C10_NormalizeIsPriorityFold ==
    Normalized =>
        /\ DOMAIN last.normalized = DOMAIN last.params
        /\ \A f \in DOMAIN last.params :
              last.normalized[f] = FieldFold(f, 1, last.params[f])

\* a lower-priority rule fired on a value a higher-priority rule had
\* rewritten, while another field of the input was left alone
C10_Witness ==
    /\ Normalized
    /\ \E f \in DOMAIN last.params :
          /\ FieldRewrites(f, 1, last.params[f]) >= 2
          /\ RuleTried(1).priority > RuleTried(2).priority
    /\ \E f \in DOMAIN last.params : last.normalized[f] = last.params[f]

RECURSIVE ValueBefore(_, _, _)
\* the value the k-th rule tried finds in the field, the input holding value
ValueBefore(field, k, value) ==
    IF k = 1 THEN value
    ELSE LET before == ValueBefore(field, k - 1, value)
             rule == RuleTried(k - 1)
         IN  IF rule.field = field /\ before # <<>> /\ matchesRule(before, rule)
             THEN rule.normalizedValue
             ELSE before

\* the k-th stored active rule finds a value it matches
Fires(k) ==
    LET rule == RuleTried(k)
    IN  /\ rule.field \in DOMAIN last.params
        /\ LET value == ValueBefore(rule.field, k, last.params[rule.field])
            IN  value # <<>> /\ matchesRule(value, rule)

FiredIds == {last.fired[i] : i \in 1..Len(last.fired)}

\* C11: a normalize call fires exactly those rules that are stored and
\* active when it runs and match at their turn: a rule that is stored but
\* deactivated does not fire, the rule deleted just before the call does not
\* fire, and every stored active rule that matches at its turn does,
\* whatever additions, updates and deletions came before.
C11_RulesReadLive ==
    Normalized =>
        /\ FiredIds = {RuleTried(k).id : k \in {j \in 1..Cardinality(ActiveRules) : Fires(j)}}
        /\ \A i \in 1..Len(normalizationRules) :
               ~normalizationRules[i].isActive => normalizationRules[i].id \notin FiredIds
        /\ last.after \notin FiredIds

\* the first call after a deletion: the deleted rule matches the input but
\* does not fire, while the rule that is still stored does
C11_Witness ==
    /\ Normalized
    /\ \E rule \in RuleInputs :
          /\ rule.id = last.after
          /\ Truthy(last.params, rule.field)
          /\ matchesRule(last.params[rule.field], rule)
    /\ last.fired # <<>>

\* a stored rule that was deactivated matches the input and does not fire
C11_WitnessDeactivated ==
    /\ Normalized
    /\ \E i \in 1..Len(normalizationRules) :
          /\ ~normalizationRules[i].isActive
          /\ Truthy(last.params, normalizationRules[i].field)
          /\ matchesRule(last.params[normalizationRules[i].field], normalizationRules[i])
    /\ last.fired # <<>>

\* the characters of a canonical value
CanonicalChars == {LowerCase[i] : i \in 1..Len(LowerCase)} \cup Digits \cup {"_", "-"}

\* the canonical form of a value, position by position: of the lowercased
\* value between its first and last non-whitespace characters, the
\* canonical characters stay, the first character of each whitespace run
\* becomes an underscore and everything else goes
CanonicalForm(value) ==
    LET lower == ToLowerCase(value)
        solid == {i \in 1..Len(lower) : lower[i] \notin WhitespaceChars}
        Inside(i) == \E a, b \in solid : a <= i /\ i <= b
        Stays(i) == /\ Inside(i)
                    /\ \/ lower[i] \in CanonicalChars
                       \/ lower[i] \in WhitespaceChars /\ lower[i - 1] \notin WhitespaceChars
        positions == SelectSeq([i \in 1..Len(lower) |-> i], Stays)
    IN  [k \in 1..Len(positions) |->
            IF lower[positions[k]] \in WhitespaceChars THEN "_" ELSE lower[positions[k]]]

\* C12: every field value normalize returns is made of characters of
\* [a-z0-9_-] only and is the canonical form of the value the rules left in
\* the field: lowercased, trimmed, each internal whitespace run one
\* underscore, every other character removed.
C12_OutputIsCanonical ==
    Normalized =>
        \A f \in DOMAIN last.result :
            /\ \A i \in 1..Len(last.result[f]) : last.result[f][i] \in CanonicalChars
            /\ f \in DOMAIN last.normalized
            /\ last.result[f] = CanonicalForm(last.normalized[f])

\* a rule wrote a value with uppercase letters, a space and a special
\* character, and another field came with surrounding and repeated spaces
C12_Witness ==
    /\ Normalized
    /\ \E f \in DOMAIN last.result :
          /\ \E i \in 1..Len(normalizationRules) :
                /\ normalizationRules[i].id \in FiredIds
                /\ normalizationRules[i].normalizedValue = last.normalized[f]
                /\ last.params[f] # last.normalized[f]
          /\ \E i, j, k \in 1..Len(last.normalized[f]) :
                /\ last.normalized[f][i] = " "
                /\ last.normalized[f][j] = "!"
                /\ last.normalized[f][k] = "M"
          /\ last.result[f] = <<"m", "e", "t", "a", "_", "a", "d", "s">>

\* C13: no field of the object normalize returns holds the empty string.
C13_NoEmptyField ==
    Normalized => \A f \in DOMAIN last.result : last.result[f] # <<>>

IsCanonical(params) ==
    \A f \in DOMAIN params : \A i \in 1..Len(params[f]) : params[f][i] \in CanonicalChars

\* C14: with the rules unchanged, normalizing the result of normalize again
\* gives the same result, for every input whose fields are all canonical.
C14_NormalizeIdempotent ==
    (Normalized /\ IsCanonical(last.params)) =>
        normalize(last.result, normalizationRules).result = last.result

(***************************************************************************)
(* DataStore: source mappings.  SourceMappingService.                      *)
(***************************************************************************)
MaxMappings == 2

\* String.prototype.toUpperCase of one character
ToUpperChar(c) ==
    IF \E i \in 1..Len(LowerCase) : LowerCase[i] = c
    THEN UpperCase[CHOOSE i \in 1..Len(LowerCase) : LowerCase[i] = c]
    ELSE c

addSourceMapping(mappings, mapping) == MapSet(mappings, mapping)

\* .filter(m => m.isActive).sort((a, b) => b.priority - a.priority)
getAllSourceMappings(mappings) ==
    LET Active(m) == m.isActive
        active == SelectSeq(mappings, Active)
    IN  StableSort(active, [i \in 1..Len(active) |-> -active[i].priority])

\* { ...existing, ...updates }, stored under the same key
updateSourceMapping(mappings, id, updates) ==
    [i \in 1..Len(mappings) |->
        IF mappings[i].id = id
        THEN [k \in DOMAIN mappings[i] |->
                 IF k \in DOMAIN updates THEN updates[k] ELSE mappings[i][k]]
        ELSE mappings[i]]

deleteSourceMapping(mappings, id) ==
    LET Others(m) == m.id # id
    IN  SelectSeq(mappings, Others)

RECURSIVE WildcardTest(_, _)
\* new RegExp('^' + escaped pattern with each * as .* + '$').test(value):
\* every character but * is escaped and stands for itself, * stands for
\* any run of characters that are not line terminators (which . skips)
WildcardTest(value, pattern) ==
    IF pattern = <<>> THEN value = <<>>
    ELSE IF Head(pattern) = "*"
         THEN \/ WildcardTest(value, Tail(pattern))
              \/ /\ value # <<>>
                 /\ Head(value) \notin {"\n", "\r"}
                 /\ WildcardTest(Tail(value), pattern)
         ELSE /\ value # <<>>
              /\ Head(value) = Head(pattern)
              /\ WildcardTest(Tail(value), Tail(pattern))

matchesPattern(value, pattern) ==
    LET lowerPattern == ToLowerCase(pattern)
    IN  IF Includes(lowerPattern, <<"*">>)
        THEN WildcardTest(value, lowerPattern)
        ELSE value = lowerPattern

\* name.split(/[_-]/).map(capitalize).join(' ')
formatSourceName(name) ==
    [i \in 1..Len(name) |->
        IF name[i] \in {"_", "-"} THEN " "
        ELSE IF i = 1 \/ name[i - 1] \in {"_", "-"} THEN ToUpperChar(name[i])
        ELSE name[i]]

\* params.field?.toLowerCase() || fallback
LowerOr(params, field, fallback) ==
    IF Truthy(params, field) THEN ToLowerCase(params[field]) ELSE fallback

\* matchedMapping: null
Null == [isNull |-> TRUE]

getDefaultMapping_socialBeforeEmail(params) ==
    LET utmSource == LowerOr(params, "utm_source", <<"u", "n", "k", "n", "o", "w", "n">>)
        utmMedium == LowerOr(params, "utm_medium", <<>>)
        Search == \/ Includes(utmSource, <<"g", "o", "o", "g", "l", "e">>)
                  \/ Includes(utmSource, <<"b", "i", "n", "g">>)
        channel ==
            IF Includes(utmMedium, <<"o", "r", "g", "a", "n", "i", "c">>)
            THEN (IF Search THEN "Organic Search" ELSE "Organic Social")
            ELSE IF \/ Includes(utmMedium, <<"p", "a", "i", "d">>)
                    \/ Includes(utmMedium, <<"c", "p", "c">>)
                    \/ Includes(utmMedium, <<"p", "p", "c">>)
            THEN (IF Search THEN "Paid Search" ELSE "Paid Social")
            ELSE IF \/ Includes(utmMedium, <<"s", "o", "c", "i", "a", "l">>)
                    \/ utmSource \in {<<"f", "a", "c", "e", "b", "o", "o", "k">>,
                                      <<"t", "w", "i", "t", "t", "e", "r">>,
                                      <<"l", "i", "n", "k", "e", "d", "i", "n">>,
                                      <<"i", "n", "s", "t", "a", "g", "r", "a", "m">>}
            THEN "Social"
            ELSE IF \/ Includes(utmMedium, <<"e", "m", "a", "i", "l">>)
                    \/ Includes(utmSource, <<"e", "m", "a", "i", "l">>)
            THEN "Email"
            ELSE IF \/ utmSource = <<"d", "i", "r", "e", "c", "t">>
                    \/ (~Truthy(params, "utm_source") /\ ~Truthy(params, "utm_medium"))
            THEN "Direct"
            ELSE IF Includes(utmMedium, <<"r", "e", "f", "e", "r", "r", "a", "l">>)
            THEN "Referral"
            ELSE "Other"
    IN  [source |-> formatSourceName(utmSource),
         sourceDetail |-> IF utmMedium # <<>> THEN formatSourceName(utmMedium)
                          ELSE <<"U", "n", "k", "n", "o", "w", "n">>,
         channel |-> channel,
         matchedMapping |-> Null]

getDefaultMapping(params) ==
    LET utmSource == LowerOr(params, "utm_source", <<"u", "n", "k", "n", "o", "w", "n">>)
        utmMedium == LowerOr(params, "utm_medium", <<>>)
        Search == \/ Includes(utmSource, <<"g", "o", "o", "g", "l", "e">>)
                  \/ Includes(utmSource, <<"b", "i", "n", "g">>)
        channel ==
            IF Includes(utmMedium, <<"o", "r", "g", "a", "n", "i", "c">>)
            THEN (IF Search THEN "Organic Search" ELSE "Organic Social")
            ELSE IF \/ Includes(utmMedium, <<"p", "a", "i", "d">>)
                    \/ Includes(utmMedium, <<"c", "p", "c">>)
                    \/ Includes(utmMedium, <<"p", "p", "c">>)
            THEN (IF Search THEN "Paid Search" ELSE "Paid Social")
            ELSE IF \/ Includes(utmMedium, <<"e", "m", "a", "i", "l">>)
                    \/ Includes(utmSource, <<"e", "m", "a", "i", "l">>)
            THEN "Email"
            ELSE IF \/ Includes(utmMedium, <<"s", "o", "c", "i", "a", "l">>)
                    \/ utmSource \in {<<"f", "a", "c", "e", "b", "o", "o", "k">>,
                                      <<"t", "w", "i", "t", "t", "e", "r">>,
                                      <<"l", "i", "n", "k", "e", "d", "i", "n">>,
                                      <<"i", "n", "s", "t", "a", "g", "r", "a", "m">>}
            THEN "Social"
            ELSE IF \/ utmSource = <<"d", "i", "r", "e", "c", "t">>
                    \/ (~Truthy(params, "utm_source") /\ ~Truthy(params, "utm_medium"))
            THEN "Direct"
            ELSE IF Includes(utmMedium, <<"r", "e", "f", "e", "r", "r", "a", "l">>)
            THEN "Referral"
            ELSE "Other"
    IN  [source |-> formatSourceName(utmSource),
         sourceDetail |-> IF utmMedium # <<>> THEN formatSourceName(utmMedium)
                          ELSE <<"U", "n", "k", "n", "o", "w", "n">>,
         channel |-> channel,
         matchedMapping |-> Null]

\* if (mapping.utmMedium): the mapping has a medium that is not empty; a
\* SourceMapping is a function from the fields it has to their values
HasMedium(mapping) == "utmMedium" \in DOMAIN mapping /\ mapping.utmMedium # <<>>

MappingResult(mapping) ==
    [source |-> mapping.source, sourceDetail |-> mapping.sourceDetail,
     channel |-> mapping.channel, matchedMapping |-> mapping]

RECURSIVE FindMapping_sourceOnly(_, _, _, _)
FindMapping_sourceOnly(mappings, utmSource, utmMedium, params) ==
    IF mappings = <<>> THEN getDefaultMapping(params)
    ELSE LET mapping == Head(mappings)
         IN  IF matchesPattern(utmSource, mapping.utmSource)
             THEN IF HasMedium(mapping) /\ ~matchesPattern(utmMedium, mapping.utmMedium)
                  THEN getDefaultMapping(params)
                  ELSE MappingResult(mapping)
             ELSE FindMapping_sourceOnly(Tail(mappings), utmSource, utmMedium, params)

RECURSIVE FindMapping(_, _, _, _)
\* the loop of mapToSource over the mappings that are left
FindMapping(mappings, utmSource, utmMedium, params) ==
    IF mappings = <<>> THEN getDefaultMapping(params)
    ELSE LET mapping == Head(mappings)
         IN  IF matchesPattern(utmSource, mapping.utmSource)
                   /\ (HasMedium(mapping) => matchesPattern(utmMedium, mapping.utmMedium))
             THEN MappingResult(mapping)
             ELSE FindMapping(Tail(mappings), utmSource, utmMedium, params)

mapToSource(params, mappings) ==
    FindMapping(getAllSourceMappings(mappings),
                LowerOr(params, "utm_source", <<>>),
                LowerOr(params, "utm_medium", <<>>), params)

\* the mappings an administrator creates (POST /api/source-mapping); the
\* first two are seeded defaults
MappingInputs ==
    { [id |-> "map-1", utmSource |-> <<"g", "o", "o", "g", "l", "e">>, utmMedium |-> <<"c", "p", "c">>,
       source |-> "Google Ads", sourceDetail |-> "Search", channel |-> "Paid Search",
       priority |-> 10, isActive |-> TRUE],
      [id |-> "map-6", utmSource |-> <<"e", "m", "a", "i", "l">>,
       source |-> "Email", sourceDetail |-> "Newsletter", channel |-> "Email",
       priority |-> 5, isActive |-> TRUE],
      [id |-> "map-8", utmSource |-> <<"G", "o", "o", "*">>,
       source |-> "Google", sourceDetail |-> "Any", channel |-> "Organic Search",
       priority |-> 5, isActive |-> TRUE],
      [id |-> "map-9", utmSource |-> <<"*">>, utmMedium |-> <<"*", "p", "a", "i", "d", "*">>,
       source |-> "Paid", sourceDetail |-> "Generic", channel |-> "Paid Social",
       priority |-> 0, isActive |-> TRUE],
      [id |-> "map-10", utmSource |-> <<"g", ".", "*">>, utmMedium |-> <<>>,
       source |-> "Short Link", sourceDetail |-> "Any", channel |-> "Referral",
       priority |-> 10, isActive |-> TRUE] }

\* the bodies of PUT /api/source-mapping/:id
MappingUpdates == { [isActive |-> FALSE], [isActive |-> TRUE], [priority |-> 20] }

\* the parameters that are classified
SourceMedium(src, med) ==
    [f \in {"utm_source", "utm_medium"} |-> IF f = "utm_source" THEN src ELSE med]

MapParamInputs ==
    { SourceMedium(<<"g", "o", "o", "g", "l", "e">>, <<"c", "p", "c">>),
      SourceMedium(<<"G", "o", "o", "g", "l", "e">>, <<"O", "r", "g", "a", "n", "i", "c">>),
      SourceMedium(<<"f", "a", "c", "e", "b", "o", "o", "k">>, <<"p", "a", "i", "d">>),
      SourceMedium(<<"f", "a", "c", "e", "b", "o", "o", "k">>, <<"e", "m", "a", "i", "l">>),
      SourceMedium(<<"u", "n", "k", "n", "o", "w", "n", "_", "s", "o", "u", "r", "c", "e">>, <<"c", "p", "c">>),
      SourceMedium(<<"b", "i", "n", "g">>, <<"o", "r", "g", "a", "n", "i", "c">>),
      SourceMedium(<<"e", "m", "a", "i", "l">>, <<"n", "e", "w", "s", "l", "e", "t", "t", "e", "r">>),
      SourceMedium(<<"p", "a", "r", "t", "n", "e", "r", "-", "s", "i", "t", "e">>, <<"r", "e", "f", "e", "r", "r", "a", "l">>),
      SourceMedium(<<"g", ".", "c", "o">>, <<"q", "r">>),
      SourceMedium(<<>>, <<>>),
      [f \in {"utm_source"} |-> <<"d", "i", "r", "e", "c", "t">>],
      [f \in {"utm_source"} |-> <<"t", "w", "i", "t", "t", "e", "r">>],
      [f \in {"utm_medium"} |-> <<"s", "o", "c", "i", "a", "l">>],
      [f \in {} |-> <<>>] }

\* POST /api/source-mapping
AddSourceMapping ==
    /\ Len(sourceMappings) < MaxMappings
    /\ \E in \in MappingInputs :
          /\ IsFreshId(sourceMappings, in.id)
          /\ sourceMappings' = addSourceMapping(sourceMappings, in)
    /\ last' = NoCall
    /\ UNCHANGED <<utmRecords, attributionEvents, normalizationRules, channelCosts, now, calls>>
    /\ UNCHANGED <<initialized, requests>>

\* PUT /api/source-mapping/:id for a stored mapping
UpdateSourceMapping ==
    /\ \E i \in 1..Len(sourceMappings), updates \in MappingUpdates :
          sourceMappings' =
              updateSourceMapping(sourceMappings, sourceMappings[i].id, updates)
    /\ last' = NoCall
    /\ UNCHANGED <<utmRecords, attributionEvents, normalizationRules, channelCosts, now, calls>>
    /\ UNCHANGED <<initialized, requests>>

\* DELETE /api/source-mapping/:id for a stored mapping
DeleteSourceMapping ==
    /\ \E i \in 1..Len(sourceMappings) :
          sourceMappings' = deleteSourceMapping(sourceMappings, sourceMappings[i].id)
    /\ last' = NoCall
    /\ UNCHANGED <<utmRecords, attributionEvents, normalizationRules, channelCosts, now, calls>>
    /\ UNCHANGED <<initialized, requests>>

\* sourceMappingService.mapToSource(params)
MapToSource ==
    /\ \E params \in MapParamInputs :
          last' = [op |-> "mapToSource", params |-> params,
                   result |-> mapToSource(params, sourceMappings)]
    /\ UNCHANGED <<utmRecords, attributionEvents, normalizationRules, sourceMappings,
                   channelCosts, now, calls>>
    /\ UNCHANGED <<initialized, requests>>

NextMap ==
    \/ AddSourceMapping
    \/ UpdateSourceMapping
    \/ DeleteSourceMapping
    \/ MapToSource

SpecMap == Init /\ [][NextMap]_vars

(***************************************************************************)
(* Properties of the channel mapper.                                       *)
(***************************************************************************)
Mapped == last.op = "mapToSource"

\* a field of the classified parameters, lowercased; empty when absent
Lowered(field) ==
    IF field \in DOMAIN last.params THEN ToLowerCase(last.params[field]) ELSE <<>>

\* positions, in insertion order, of the stored mappings that are active
ActiveMappings == {i \in 1..Len(sourceMappings) : sourceMappings[i].isActive}

\* mapping i is tried before mapping j
MappingTriedBefore(i, j) ==
    \/ sourceMappings[i].priority > sourceMappings[j].priority
    \/ /\ sourceMappings[i].priority = sourceMappings[j].priority
       /\ i < j

SourceMatches(i) == matchesPattern(Lowered("utm_source"), sourceMappings[i].utmSource)

\* the mapping at position i accepts the classified parameters
Satisfies(i) ==
    /\ SourceMatches(i)
    /\ HasMedium(sourceMappings[i]) =>
           matchesPattern(Lowered("utm_medium"), sourceMappings[i].utmMedium)

\* C15: mapToSource returns the source, sourceDetail and channel of the
\* first active mapping, by descending priority and then insertion order,
\* whose source pattern matches the lowercased source and whose medium
\* pattern, if it has a medium, matches the lowercased medium, and returns
\* that mapping as matchedMapping; mappings that fail are skipped, inactive
\* mappings never match.
C15_FirstSatisfyingMapping ==
    (Mapped /\ \E i \in ActiveMappings : Satisfies(i)) =>
        \E i \in ActiveMappings :
            /\ Satisfies(i)
            /\ \A j \in ActiveMappings \ {i} : Satisfies(j) => MappingTriedBefore(i, j)
            /\ last.result.matchedMapping = sourceMappings[i]
            /\ last.result.source = sourceMappings[i].source
            /\ last.result.sourceDetail = sourceMappings[i].sourceDetail
            /\ last.result.channel = sourceMappings[i].channel

\* a mapping tried first matched the source but not the medium, and a
\* wildcard mapping of lower priority was returned
C15_Witness ==
    /\ Mapped
    /\ \E i, j \in ActiveMappings :
          /\ MappingTriedBefore(i, j)
          /\ sourceMappings[i].priority > sourceMappings[j].priority
          /\ SourceMatches(i) /\ ~Satisfies(i)
          /\ Includes(sourceMappings[j].utmSource, <<"*">>)
          /\ last.result.matchedMapping = sourceMappings[j]

\* the channel of the first applicable rule of the fixed list
FallbackChannel ==
    LET source == Lowered("utm_source")
        medium == Lowered("utm_medium")
        Search == \/ Includes(source, <<"g", "o", "o", "g", "l", "e">>)
                  \/ Includes(source, <<"b", "i", "n", "g">>)
        Organic == Includes(medium, <<"o", "r", "g", "a", "n", "i", "c">>)
        Paid == \E word \in {<<"p", "a", "i", "d">>, <<"c", "p", "c">>, <<"p", "p", "c">>} :
                    Includes(medium, word)
        Email == \E field \in {source, medium} : Includes(field, <<"e", "m", "a", "i", "l">>)
        Social == \/ Includes(medium, <<"s", "o", "c", "i", "a", "l">>)
                  \/ source \in {<<"f", "a", "c", "e", "b", "o", "o", "k">>,
                                 <<"t", "w", "i", "t", "t", "e", "r">>,
                                 <<"l", "i", "n", "k", "e", "d", "i", "n">>,
                                 <<"i", "n", "s", "t", "a", "g", "r", "a", "m">>}
        Direct == \/ source = <<"d", "i", "r", "e", "c", "t">>
                  \/ source = <<>> /\ medium = <<>>
        Referral == Includes(medium, <<"r", "e", "f", "e", "r", "r", "a", "l">>)
        rules == << <<Organic /\ Search, "Organic Search">>, <<Organic, "Organic Social">>,
                    <<Paid /\ Search, "Paid Search">>, <<Paid, "Paid Social">>,
                    <<Email, "Email">>, <<Social, "Social">>, <<Direct, "Direct">>,
                    <<Referral, "Referral">>, <<TRUE, "Other">> >>
        first == CHOOSE k \in 1..Len(rules) :
                     rules[k][1] /\ \A j \in 1..(k - 1) : ~rules[j][1]
    IN  rules[first][2]

\* C16: when no active mapping accepts the parameters, mapToSource returns
\* no matchedMapping and the channel of the first applicable rule of:
\* organic medium (search or social by source), paid/cpc/ppc medium (search
\* or social by source), email in medium or source, social medium or a
\* social-network source, direct source or neither source nor medium,
\* referral medium, Other.
C16_FallbackChannel ==
    (Mapped /\ ~\E i \in ActiveMappings : Satisfies(i)) =>
        /\ last.result.matchedMapping = Null
        /\ last.result.channel = FallbackChannel

\* a stored mapping matched the source but not the medium, and the fallback
\* chose Email for a facebook source because the medium rule comes first
C16_Witness ==
    /\ Mapped
    /\ \E i \in ActiveMappings : SourceMatches(i) /\ ~Satisfies(i)
    /\ last.result.matchedMapping = Null
    /\ last.result.channel = "Email"
    /\ Lowered("utm_source") = <<"f", "a", "c", "e", "b", "o", "o", "k">>

(***************************************************************************)
(* DataStore: channel costs.  MetricsService.                              *)
(*                                                                         *)
(* Dates are day numbers: the ISO strings the code compares as strings     *)
(* (cost windows) or as parsed instants (event timestamps) are ordered as  *)
(* their day numbers are.  A cost record and a filter are functions from   *)
(* the fields they have to their values.                                   *)
(***************************************************************************)
\* x - y
FSub(x, y) == FAdd(x, FMul(Num(-1), y))

addChannelCost(costs, cost) == MapSet(costs, cost)

\* { ...existing, ...updates }, stored under the same key
updateChannelCost(costs, id, updates) ==
    [i \in 1..Len(costs) |->
        IF costs[i].id = id
        THEN [k \in DOMAIN costs[i] |->
                 IF k \in DOMAIN updates THEN updates[k] ELSE costs[i][k]]
        ELSE costs[i]]

deleteChannelCost(costs, id) ==
    LET Others(c) == c.id # id
    IN  SelectSeq(costs, Others)

getChannelCostsByChannel(costs, channel) ==
    LET Test(c) == c.channel = channel
    IN  SelectSeq(costs, Test)

getChannelCostsInRange_overlapping(costs, startDate, endDate) ==
    LET Test(c) == c.endDate >= startDate /\ c.startDate <= endDate
    IN  SelectSeq(costs, Test)

\* .filter(c => c.startDate >= startDate && c.endDate <= endDate)
getChannelCostsInRange(costs, startDate, endDate) ==
    LET Test(c) == c.startDate >= startDate /\ c.endDate <= endDate
    IN  SelectSeq(costs, Test)

getAttributionEventsByChannel(events, channel) ==
    LET Test(e) == e.channel = channel
    IN  SelectSeq(events, Test)

\* options.dim && entry.dim !== options.dim: the filter has a value for the
\* dimension that is not the empty string, and the entry has another or none
Differs(options, entry, dim) ==
    /\ dim \in DOMAIN options
    /\ options[dim] # ""
    /\ (dim \notin DOMAIN entry \/ entry[dim] # options[dim])

CostsOf(costs) == [i \in 1..Len(costs) |-> costs[i].cost]

getTotalCosts(options) ==
    LET Test(c) == \A dim \in {"channel", "source", "sourceDetail"} : ~Differs(options, c, dim)
    IN  FSum(CostsOf(SelectSeq(
            getChannelCostsInRange(channelCosts, options.startDate, options.endDate),
            Test)))

getAttributionEvents_endExclusive(options) ==
    LET Test(e) ==
            /\ ~(e.timestamp < options.startDate \/ e.timestamp >= options.endDate)
            /\ \A dim \in {"channel", "source", "sourceDetail"} : ~Differs(options, e, dim)
    IN  SelectSeq(attributionEvents, Test)

getAttributionEvents(options) ==
    LET Test(e) ==
            /\ ~(e.timestamp < options.startDate \/ e.timestamp > options.endDate)
            /\ \A dim \in {"channel", "source", "sourceDetail"} : ~Differs(options, e, dim)
    IN  SelectSeq(attributionEvents, Test)

getTotalRevenue(options) == FSum(WeightedRevenuesOf(getAttributionEvents(options)))

getConversions(options) == FSum(WeightsOf(getAttributionEvents(options)))

calculateCAC_unguarded(options) == FDiv(getTotalCosts(options), getConversions(options))

calculateCAC(options) ==
    LET costs == getTotalCosts(options)
        conversions == getConversions(options)
    IN  IF conversions = Num(0) THEN Num(0) ELSE FDiv(costs, conversions)

calculateROI(options) ==
    LET costs == getTotalCosts(options)
        revenue == getTotalRevenue(options)
    IN  IF costs = Num(0) THEN Num(0)
        ELSE FMul(FDiv(FSub(revenue, costs), costs), Num(100))

calculateROAS(options) ==
    LET costs == getTotalCosts(options)
        revenue == getTotalRevenue(options)
    IN  IF costs = Num(0) THEN Num(0) ELSE FDiv(revenue, costs)

RECURSIVE Distinct(_)
\* Array.from(new Set(values)): the first occurrence of each value, in order
Distinct(values) ==
    IF values = <<>> THEN <<>>
    ELSE LET init == Distinct(SubSeq(values, 1, Len(values) - 1))
             v == values[Len(values)]
         IN  IF \E i \in 1..Len(init) : init[i] = v THEN init ELSE Append(init, v)

ChannelsOf(entries) == [i \in 1..Len(entries) |-> entries[i].channel]

getUniqueChannels == Distinct(ChannelsOf(utmRecords) \o ChannelsOf(channelCosts))

\* { ...options, channel }
WithChannel(options, channel) ==
    [k \in DOMAIN options \cup {"channel"} |-> IF k = "channel" THEN channel ELSE options[k]]

\* the entry getChannelMetrics pushes for one channel
ChannelEntry(options, channel) ==
    LET channelOptions == WithChannel(options, channel)
        totalCost == getTotalCosts(channelOptions)
        totalRevenue == getTotalRevenue(channelOptions)
        conversions == getConversions(channelOptions)
    IN  [channel |-> channel,
         period |-> [start |-> options.startDate, end |-> options.endDate],
         totalCost |-> totalCost, totalRevenue |-> totalRevenue,
         conversions |-> conversions,
         cac |-> IF GtZero(conversions) THEN FDiv(totalCost, conversions) ELSE Num(0),
         roi |-> IF GtZero(totalCost)
                 THEN FMul(FDiv(FSub(totalRevenue, totalCost), totalCost), Num(100))
                 ELSE Num(0),
         roas |-> IF GtZero(totalCost) THEN FDiv(totalRevenue, totalCost) ELSE Num(0)]

getChannelMetrics(options) ==
    LET channels == getUniqueChannels
        metrics == [i \in 1..Len(channels) |-> ChannelEntry(options, channels[i])]
        Shown(m) == GtZero(m.totalCost) \/ GtZero(m.totalRevenue) \/ GtZero(m.conversions)
    IN  SelectSeq(metrics, Shown)

getOverallMetrics(options) ==
    LET totalCost == getTotalCosts(options)
        totalRevenue == getTotalRevenue(options)
        totalConversions == getConversions(options)
    IN  [totalCAC |-> IF GtZero(totalConversions) THEN FDiv(totalCost, totalConversions)
                      ELSE Num(0),
         averageROI |-> IF GtZero(totalCost)
                        THEN FMul(FDiv(FSub(totalRevenue, totalCost), totalCost), Num(100))
                        ELSE Num(0),
         totalRevenue |-> totalRevenue, totalCost |-> totalCost,
         totalConversions |-> totalConversions]

RECURSIVE AttributedCost_unshared(_, _)
AttributedCost_unshared(channels, contactEvents) ==
    IF channels = <<>> THEN Num(0)
    ELSE LET channel == channels[Len(channels)]
             sofar == AttributedCost_unshared(SubSeq(channels, 1, Len(channels) - 1),
                                              contactEvents)
             costs == getChannelCostsByChannel(channelCosts, channel)
         IN  FAdd(sofar, FSum(CostsOf(costs)))

RECURSIVE AttributedCost(_, _)
\* the loop of getContactMetrics over the channels that are left
AttributedCost(channels, contactEvents) ==
    IF channels = <<>> THEN Num(0)
    ELSE LET channel == channels[Len(channels)]
             sofar == AttributedCost(SubSeq(channels, 1, Len(channels) - 1), contactEvents)
             costs == getChannelCostsByChannel(channelCosts, channel)
             channelEvents == getAttributionEventsByChannel(attributionEvents, channel)
             contactWeight == FSum(WeightsOf(getAttributionEventsByChannel(contactEvents, channel)))
             totalWeight == FSum(WeightsOf(channelEvents))
             channelTotalCost == FSum(CostsOf(costs))
         IN  IF Len(channelEvents) > 0
             THEN FAdd(sofar, FDiv(FMul(channelTotalCost, contactWeight), totalWeight))
             ELSE sofar

getContactMetrics(contactId) ==
    LET records == getUTMRecordsByContact(utmRecords, contactId)
        events == getAttributionEventsByContact(attributionEvents, contactId)
    IN  [touchpoints |->
             [i \in 1..Len(records) |->
                 [channel |-> records[i].channel, source |-> records[i].source,
                  sourceDetail |-> records[i].sourceDetail,
                  timestamp |-> records[i].timestamp,
                  utmCampaign |-> IF "utm_campaign" \in DOMAIN records[i].normalizedParams
                                  THEN records[i].normalizedParams.utm_campaign
                                  ELSE <<>>]],
         attributedRevenue |-> FSum(WeightedRevenuesOf(events)),
         attributedCAC |-> AttributedCost(Distinct(ChannelsOf(events)), events)]

(***************************************************************************)
(* The metrics aggregator over a store filled by ingestion, cost edits,    *)
(* conversions and recalculations.                                         *)
(***************************************************************************)
MaxCosts == 2

\* the cost entries that are posted
CostInputs ==
    { [id |-> "cost-1", channel |-> "Paid Search", source |-> "Google Ads",
       cost |-> Num(1000), startDate |-> 0, endDate |-> 7],
      [id |-> "cost-2", channel |-> "Paid Social",
       cost |-> Num(500), startDate |-> 5, endDate |-> 10],
      [id |-> "cost-3", channel |-> "",
       cost |-> Num(100), startDate |-> 0, endDate |-> 7] }

\* the cost edits that are put: a credit note
CostUpdateRequests == { [id |-> "cost-2", updates |-> [cost |-> Num(-100)]] }

\* the classified touchpoints that ingestion stores
TouchpointInputs ==
    { [id |-> "utm-1", contactId |-> "contact-1", timestamp |-> 0,
       source |-> GoogleAds.source, sourceDetail |-> GoogleAds.sourceDetail,
       channel |-> GoogleAds.channel,
       normalizedParams |-> SourceMedium("google", "cpc")],
      [id |-> "utm-2", contactId |-> "contact-1", timestamp |-> 3,
       source |-> FacebookPaid.source, sourceDetail |-> FacebookPaid.sourceDetail,
       channel |-> FacebookPaid.channel,
       normalizedParams |-> [utm_campaign |-> <<"s", "a", "l", "e">>]],
      [id |-> "utm-3", contactId |-> "contact-2", timestamp |-> 0,
       source |-> GoogleAds.source, sourceDetail |-> GoogleAds.sourceDetail,
       channel |-> GoogleAds.channel,
       normalizedParams |-> SourceMedium("google", "cpc")] }

\* the conversions that are posted (the model defaults to last_touch)
ConversionRequests ==
    { [contactId |-> "contact-1", dealId |-> "deal-1", revenue |-> Num(100),
       config |-> [model |-> "linear", timeDecayHalfLife |-> NoHalfLife]],
      [contactId |-> "contact-2", dealId |-> None, revenue |-> Num(300),
       config |-> [model |-> "last_touch", timeDecayHalfLife |-> NoHalfLife]] }

\* the recalculations that are asked for
RemodelRequests ==
    { [contactId |-> "contact-1",
       config |-> [model |-> "first_touch", timeDecayHalfLife |-> NoHalfLife]] }

\* the periods GET /api/metrics is asked for
Periods == { [startDate |-> 0, endDate |-> 7], [startDate |-> 5, endDate |-> 14] }

\* the filters the ratios are asked for
FilterInputs ==
    { [startDate |-> 0, endDate |-> 7, channel |-> "Paid Search"],
      [startDate |-> 5, endDate |-> 14, channel |-> "Paid Social"],
      [startDate |-> 0, endDate |-> 14, channel |-> "", source |-> "Google Ads"],
      [startDate |-> 0, endDate |-> 14, sourceDetail |-> "Paid Social"],
      [startDate |-> 0, endDate |-> 6] }

\* POST /api/utm as far as the store sees it
StoreTouchpoint ==
    /\ Len(utmRecords) < MaxRecords
    /\ \E record \in TouchpointInputs :
          /\ IsFreshId(utmRecords, record.id)
          /\ utmRecords' = addUTMRecord(utmRecords, record)
    /\ last' = NoCall
    /\ UNCHANGED <<attributionEvents, normalizationRules, sourceMappings, channelCosts,
                   now, calls>>
    /\ UNCHANGED <<initialized, requests>>

\* POST /api/channel-costs
AddChannelCost ==
    /\ Len(channelCosts) < MaxCosts
    /\ \E cost \in CostInputs :
          /\ IsFreshId(channelCosts, cost.id)
          /\ channelCosts' = addChannelCost(channelCosts, cost)
    /\ last' = NoCall
    /\ UNCHANGED <<utmRecords, attributionEvents, normalizationRules, sourceMappings,
                   now, calls>>
    /\ UNCHANGED <<initialized, requests>>

\* PUT /api/channel-costs/:id
UpdateChannelCost ==
    /\ \E req \in CostUpdateRequests :
          /\ ~IsFreshId(channelCosts, req.id)
          /\ channelCosts' = updateChannelCost(channelCosts, req.id, req.updates)
    /\ last' = NoCall
    /\ UNCHANGED <<utmRecords, attributionEvents, normalizationRules, sourceMappings,
                   now, calls>>
    /\ UNCHANGED <<initialized, requests>>

\* DELETE /api/channel-costs/:id
DeleteChannelCost ==
    /\ \E i \in 1..Len(channelCosts) :
          channelCosts' = deleteChannelCost(channelCosts, channelCosts[i].id)
    /\ last' = NoCall
    /\ UNCHANGED <<utmRecords, attributionEvents, normalizationRules, sourceMappings,
                   now, calls>>
    /\ UNCHANGED <<initialized, requests>>

\* POST /api/metrics/attribution
PostAttribution ==
    /\ calls < MaxCalls
    /\ \E req \in ConversionRequests :
          attributionEvents' =
              createAttribution(req.contactId, req.dealId, req.revenue, req.config, now).store
    /\ calls' = calls + 1
    /\ last' = NoCall
    /\ UNCHANGED <<utmRecords, normalizationRules, sourceMappings, channelCosts, now>>
    /\ UNCHANGED <<initialized, requests>>

\* attributionService.recalculateAttribution(contactId, newConfig)
Remodel ==
    /\ calls < MaxCalls
    /\ \E req \in RemodelRequests :
          LET call == recalculateAttribution(req.contactId, req.config, now)
          IN  /\ attributionEvents' = call.store
              /\ last' = [op |-> "remodel", contactId |-> req.contactId,
                          existing |-> getAttributionEventsByContact(attributionEvents,
                                                                     req.contactId),
                          revenue |-> call.revenue, returned |-> call.returned]
    /\ calls' = calls + 1
    /\ UNCHANGED <<utmRecords, normalizationRules, sourceMappings, channelCosts, now>>
    /\ UNCHANGED <<initialized, requests>>

\* GET /api/metrics
GetMetrics ==
    /\ \E options \in Periods :
          last' = [op |-> "getMetrics", options |-> options,
                   overall |-> getOverallMetrics(options),
                   channels |-> getChannelMetrics(options)]
    /\ UNCHANGED <<utmRecords, attributionEvents, normalizationRules, sourceMappings,
                   channelCosts, now, calls>>
    /\ UNCHANGED <<initialized, requests>>

\* GET /api/metrics/channel/:channel, and the service's calculators asked
\* with a source or a source detail
GetChannelRatios ==
    /\ \E options \in FilterInputs :
          last' = [op |-> "calculate", options |-> options,
                   totalCost |-> getTotalCosts(options),
                   totalRevenue |-> getTotalRevenue(options),
                   conversions |-> getConversions(options),
                   cac |-> calculateCAC(options), roi |-> calculateROI(options),
                   roas |-> calculateROAS(options)]
    /\ UNCHANGED <<utmRecords, attributionEvents, normalizationRules, sourceMappings,
                   channelCosts, now, calls>>
    /\ UNCHANGED <<initialized, requests>>

\* GET /api/metrics/contact/:contactId
GetContactMetrics ==
    /\ \E contactId \in {"contact-1", "contact-2"} :
          last' = [op |-> "getContactMetrics", contactId |-> contactId,
                   metrics |-> getContactMetrics(contactId)]
    /\ UNCHANGED <<utmRecords, attributionEvents, normalizationRules, sourceMappings,
                   channelCosts, now, calls>>
    /\ UNCHANGED <<initialized, requests>>

NextMetrics ==
    \/ StoreTouchpoint
    \/ AddChannelCost
    \/ UpdateChannelCost
    \/ DeleteChannelCost
    \/ PostAttribution
    \/ Remodel
    \/ GetMetrics
    \/ GetChannelRatios
    \/ GetContactMetrics

SpecMetrics == Init /\ [][NextMetrics]_vars

(***************************************************************************)
(* Properties of the metrics aggregator.                                   *)
(***************************************************************************)
MetricsAsked == last.op = "getMetrics"
RatiosAsked == last.op = "calculate"
ContactMetricsAsked == last.op = "getContactMetrics"

TotalCostsOf(entries) == [i \in 1..Len(entries) |-> entries[i].totalCost]
TotalRevenuesOf(entries) == [i \in 1..Len(entries) |-> entries[i].totalRevenue]
ConversionsOf(entries) == [i \in 1..Len(entries) |-> entries[i].conversions]

\* C17: for any period, the totalCost, totalRevenue and conversions of the
\* entries getChannelMetrics returns add up to the totalCost, totalRevenue
\* and totalConversions getOverallMetrics returns for the same period.
C17_ChannelSumsEqualOverall ==
    MetricsAsked =>
        /\ FSum(TotalCostsOf(last.channels)) = last.overall.totalCost
        /\ FSum(TotalRevenuesOf(last.channels)) = last.overall.totalRevenue
        /\ FSum(ConversionsOf(last.channels)) = last.overall.totalConversions

\* a filter specifies a dimension when it has a non-empty value for it
Specifies(options, dim) == dim \in DOMAIN options /\ options[dim] # ""

\* the entry equals the filter on every dimension the filter specifies
MatchesDimensions(options, entry) ==
    \A dim \in {"channel", "source", "sourceDetail"} :
        Specifies(options, dim) => (dim \in DOMAIN entry /\ entry[dim] = options[dim])

\* the stored cost records a filter counts
CountedCosts(options) ==
    {i \in 1..Len(channelCosts) :
        /\ channelCosts[i].startDate >= options.startDate
        /\ channelCosts[i].endDate <= options.endDate
        /\ MatchesDimensions(options, channelCosts[i])}

\* a cost record whose window overlaps the filter's range without lying in it
PartlyOverlaps(options, i) ==
    /\ channelCosts[i].startDate <= options.endDate
    /\ channelCosts[i].endDate >= options.startDate
    /\ (channelCosts[i].startDate < options.startDate
           \/ channelCosts[i].endDate > options.endDate)

RECURSIVE CostSum(_)
CostSum(S) ==
    IF S = {} THEN Num(0)
    ELSE LET i == CHOOSE k \in S : TRUE
         IN  FAdd(channelCosts[i].cost, CostSum(S \ {i}))

\* C18: the total cost of a filter is the sum of the cost of exactly the
\* cost records whose window lies within the filter's range, both ends
\* inclusive, and that equal the filter on each dimension it specifies; a
\* record that only partly overlaps the range contributes nothing.
C18_TotalCostOfFilter ==
    /\ RatiosAsked => last.totalCost = CostSum(CountedCosts(last.options))
    /\ MetricsAsked => last.overall.totalCost = CostSum(CountedCosts(last.options))

\* a channel filter counts one record ending on the last day of the range and
\* leaves out a record of another channel in the same window
C18_Witness ==
    /\ RatiosAsked
    /\ Specifies(last.options, "channel")
    /\ \E i \in CountedCosts(last.options), j \in 1..Len(channelCosts) :
          /\ channelCosts[i].endDate = last.options.endDate
          /\ channelCosts[j].channel # last.options.channel
          /\ channelCosts[j].startDate = channelCosts[i].startDate
          /\ channelCosts[j].endDate = channelCosts[i].endDate
    /\ last.totalCost = Num(1000)

\* a record that partly overlaps the period is left out of a non-zero total
C18_WitnessPartOverlap ==
    /\ MetricsAsked
    /\ \E j \in 1..Len(channelCosts) : PartlyOverlaps(last.options, j)
    /\ CountedCosts(last.options) # {}
    /\ last.overall.totalCost # Num(0)

\* the stored events a filter counts
CountedEvents(options) ==
    {i \in 1..Len(attributionEvents) :
        /\ attributionEvents[i].timestamp >= options.startDate
        /\ attributionEvents[i].timestamp <= options.endDate
        /\ MatchesDimensions(options, attributionEvents[i])}

RECURSIVE WeightedRevenueSum(_)
WeightedRevenueSum(S) ==
    IF S = {} THEN Num(0)
    ELSE LET i == CHOOSE k \in S : TRUE
         IN  FAdd(FMul(attributionEvents[i].revenue, attributionEvents[i].attributionWeight),
                  WeightedRevenueSum(S \ {i}))

RECURSIVE WeightSum(_)
WeightSum(S) ==
    IF S = {} THEN Num(0)
    ELSE LET i == CHOOSE k \in S : TRUE
         IN  FAdd(attributionEvents[i].attributionWeight, WeightSum(S \ {i}))

\* C19: the total revenue of a filter is the sum of revenue * attributionWeight,
\* and its conversions the sum of attributionWeight, over exactly the events
\* whose timestamp lies in [startDate, endDate], both ends inclusive, and that
\* equal the filter on each dimension it specifies.
C19_RevenueAndConversionsOfFilter ==
    /\ RatiosAsked =>
          /\ last.totalRevenue = WeightedRevenueSum(CountedEvents(last.options))
          /\ last.conversions = WeightSum(CountedEvents(last.options))
    /\ MetricsAsked =>
          /\ last.overall.totalRevenue = WeightedRevenueSum(CountedEvents(last.options))
          /\ last.overall.totalConversions = WeightSum(CountedEvents(last.options))

\* a channel filter ending on the day of the conversion counts half a
\* conversion of a linear split and leaves out the other channel's half
C19_Witness ==
    /\ RatiosAsked
    /\ Specifies(last.options, "channel")
    /\ \E i \in CountedEvents(last.options), j \in 1..Len(attributionEvents) :
          /\ attributionEvents[i].timestamp = last.options.endDate
          /\ attributionEvents[j].channel # last.options.channel
          /\ attributionEvents[j].contactId = attributionEvents[i].contactId
    /\ last.conversions = Rat(1, 2)
    /\ last.totalRevenue = Num(50)

\* events after the end of the range are left out
C19_WitnessOutOfRange ==
    /\ RatiosAsked
    /\ attributionEvents # <<>>
    /\ \A i \in 1..Len(attributionEvents) :
          attributionEvents[i].timestamp > last.options.endDate
    /\ last.conversions = Num(0)

Remodeled == last.op = "remodel"

\* a ratio is a finite number, and 0 when its divisor is 0
GuardedRatio(ratio, divisor) == IsFinite(ratio) /\ (divisor = Num(0) => ratio = Num(0))

\* the channels in which the contact asked about has attribution events
ChannelsOfContact ==
    {attributionEvents[i].channel : i \in {k \in 1..Len(attributionEvents) :
        attributionEvents[k].contactId = last.contactId}}

\* the total attribution weight of all contacts' events in a channel
ChannelWeight(channel) ==
    WeightSum({i \in 1..Len(attributionEvents) : attributionEvents[i].channel = channel})

C20_WitnessNoCost ==
    /\ MetricsAsked
    /\ last.overall.totalCost = Num(0)
    /\ GtZero(last.overall.totalRevenue)
    /\ last.overall.averageROI = Num(0)
    /\ \E i \in 1..Len(last.channels) :
          last.channels[i].totalCost = Num(0) /\ last.channels[i].roas = Num(0)

\* a contact without attribution events has no attributed cost although
\* its channel has costs, and a recalculation for it creates nothing
C20_WitnessNoEvents ==
    \/ /\ ContactMetricsAsked
       /\ ChannelsOfContact = {}
       /\ last.metrics.touchpoints # <<>>
       /\ channelCosts # <<>>
       /\ last.metrics.attributedCAC = Num(0)
    \/ /\ Remodeled
       /\ last.existing = <<>>
       /\ utmRecords # <<>>

\* a contact is charged its share of a channel it shares with another one
C20_WitnessShared ==
    /\ ContactMetricsAsked
    /\ \E channel \in ChannelsOfContact :
          \E i \in 1..Len(attributionEvents) :
              /\ attributionEvents[i].channel = channel
              /\ attributionEvents[i].contactId # last.contactId
    /\ GtZero(last.metrics.attributedCAC)

\* the distinct channels of the stored touchpoints and cost records
StoredChannels ==
    {utmRecords[i].channel : i \in 1..Len(utmRecords)}
        \cup {channelCosts[i].channel : i \in 1..Len(channelCosts)}

\* the cost records and the events of one channel that lie in the period
CostsOfChannel(options, channel) ==
    {i \in CountedCosts(options) : channelCosts[i].channel = channel}
EventsOfChannel(options, channel) ==
    {i \in CountedEvents(options) : attributionEvents[i].channel = channel}

\* total cost, total revenue and conversions of the channel are all zero
AllZero(options, channel) ==
    /\ CostSum(CostsOfChannel(options, channel)) = Num(0)
    /\ WeightedRevenueSum(EventsOfChannel(options, channel)) = Num(0)
    /\ WeightSum(EventsOfChannel(options, channel)) = Num(0)

\* C21: getChannelMetrics returns exactly one entry for each distinct channel
\* of the stored touchpoints and cost records, except that a channel is
\* omitted if and only if its total cost, total revenue and conversions in
\* the period are all zero; no channel appears twice.
C21_OneEntryPerActiveChannel ==
    MetricsAsked =>
        /\ \A i \in 1..Len(last.channels) : last.channels[i].channel \in StoredChannels
        /\ \A i, j \in 1..Len(last.channels) :
              last.channels[i].channel = last.channels[j].channel => i = j
        /\ \A channel \in StoredChannels :
              (\E i \in 1..Len(last.channels) : last.channels[i].channel = channel)
                  <=> ~AllZero(last.options, channel)

\* the stored events of a contact, and those of them in one channel
EventsOfContact(contactId) ==
    {i \in 1..Len(attributionEvents) : attributionEvents[i].contactId = contactId}
EventsIn(channel) ==
    {i \in 1..Len(attributionEvents) : attributionEvents[i].channel = channel}

\* the cost of all the cost records of a channel, whatever their window
CostOfChannel(channel) ==
    CostSum({i \in 1..Len(channelCosts) : channelCosts[i].channel = channel})

RECURSIVE ShareOfCosts(_, _)
\* the sum over the channels of: the channel's cost times the contact's weight
\* in the channel over the weight of all contacts' events in the channel
ShareOfCosts(contactId, channels) ==
    IF channels = {} THEN Num(0)
    ELSE LET channel == CHOOSE c \in channels : TRUE
         IN  FAdd(FDiv(FMul(CostOfChannel(channel),
                            WeightSum(EventsOfContact(contactId) \cap EventsIn(channel))),
                       WeightSum(EventsIn(channel))),
                  ShareOfCosts(contactId, channels \ {channel}))

RECURSIVE CostOfChannels(_)
CostOfChannels(channels) ==
    IF channels = {} THEN Num(0)
    ELSE LET channel == CHOOSE c \in channels : TRUE
         IN  FAdd(CostOfChannel(channel), CostOfChannels(channels \ {channel}))

RECURSIVE AttributedCACOfAll(_)
\* the attributedCAC getContactMetrics returns, added up over the contacts
AttributedCACOfAll(contacts) ==
    IF contacts = {} THEN Num(0)
    ELSE LET contactId == CHOOSE c \in contacts : TRUE
         IN  FAdd(getContactMetrics(contactId).attributedCAC,
                  AttributedCACOfAll(contacts \ {contactId}))

\* the stored touchpoints of the contact asked about
TouchpointsOfContact ==
    {i \in 1..Len(utmRecords) : utmRecords[i].contactId = last.contactId}

\* C22: getContactMetrics returns the contact's touchpoints in ascending
\* timestamp order, attributedRevenue = the sum of revenue * weight over the
\* contact's events, and attributedCAC = the sum over the channels in which
\* the contact has events of the channel's total cost times the contact's
\* share of the channel's total weight; added up over all contacts,
\* attributedCAC is the total cost of the channels that have an event.
C22_ContactMetrics ==
    ContactMetricsAsked =>
        LET touchpoints == last.metrics.touchpoints
        IN  /\ Len(touchpoints) = Cardinality(TouchpointsOfContact)
            /\ \A i \in TouchpointsOfContact : \E k \in 1..Len(touchpoints) :
                  /\ touchpoints[k].timestamp = utmRecords[i].timestamp
                  /\ touchpoints[k].channel = utmRecords[i].channel
                  /\ touchpoints[k].source = utmRecords[i].source
                  /\ touchpoints[k].sourceDetail = utmRecords[i].sourceDetail
            /\ \A j, k \in 1..Len(touchpoints) :
                  j < k => touchpoints[j].timestamp <= touchpoints[k].timestamp
            /\ last.metrics.attributedRevenue
                  = WeightedRevenueSum(EventsOfContact(last.contactId))
            /\ last.metrics.attributedCAC
                  = ShareOfCosts(last.contactId, ChannelsOfContact)
            /\ AttributedCACOfAll({attributionEvents[i].contactId :
                                       i \in 1..Len(attributionEvents)})
                  = CostOfChannels({attributionEvents[i].channel :
                                       i \in 1..Len(attributionEvents)})

\* two contacts converted in the same channel, which cost 1000: each is
\* charged half of it
C22_Witness ==
    /\ ContactMetricsAsked
    /\ \E i \in 1..Len(attributionEvents) :
          /\ attributionEvents[i].contactId # last.contactId
          /\ attributionEvents[i].channel \in ChannelsOfContact
    /\ last.metrics.touchpoints # <<>>
    /\ GtZero(last.metrics.attributedRevenue)
    /\ last.metrics.attributedCAC = Num(500)

\* the later touchpoint was stored first and is returned last
C22_WitnessOrder ==
    /\ ContactMetricsAsked
    /\ Len(last.metrics.touchpoints) = 2
    /\ utmRecords[1].contactId = last.contactId
    /\ utmRecords[1].timestamp = last.metrics.touchpoints[2].timestamp
    /\ last.metrics.touchpoints[1].timestamp < last.metrics.touchpoints[2].timestamp

\* C28: for every channel and period, the cac, roi and roas of the
\* getChannelMetrics entry of the channel equal calculateCAC, calculateROI and
\* calculateROAS asked with the same period and that channel, whatever the
\* stored costs and events are.
C28_EntryRatiosEqualCalculators ==
    MetricsAsked =>
        \A i \in 1..Len(last.channels) :
            LET entry == last.channels[i]
                options == WithChannel(last.options, entry.channel)
            IN  /\ entry.cac = calculateCAC(options)
                /\ entry.roi = calculateROI(options)
                /\ entry.roas = calculateROAS(options)

(***************************************************************************)
(* Properties of the attribution events across calls.                      *)
(***************************************************************************)
\* the last call ran createAttribution on a contact that has touchpoints
CreationRan ==
    \/ Created /\ RecordsOf(last.contactId) # {}
    \/ Recalculated /\ last.existing # <<>>

\* C27: each createAttribution call with revenue R on a contact with at
\* least one touchpoint, made directly or by recalculateAttribution, raises
\* the contact's attributed revenue (sum of revenue * weight over its events)
\* by exactly R and the sum of its events' weights by exactly 1; earlier
\* events are kept, so k + 1 creations count k + 1 conversions.
C27_CreationAddsOneConversion ==
    CreationRan =>
        LET before == getAttributionEventsByContact(last.before, last.contactId)
            after == getAttributionEventsByContact(attributionEvents, last.contactId)
        IN  /\ FSum(WeightedRevenuesOf(after))
                  = FAdd(FSum(WeightedRevenuesOf(before)), last.revenue)
            /\ FSum(WeightsOf(after)) = FAdd(FSum(WeightsOf(before)), Num(1))

\* C29: in every reachable state each stored attribution event has a weight
\* in (0, 1], its utmRecordId is the id of a stored touchpoint of the same
\* contact, and its channel, source and sourceDetail are that touchpoint's.
C29_EventsPointAtTouchpoints ==
    \A i \in 1..Len(attributionEvents) :
        LET e == attributionEvents[i]
        IN  /\ GtZero(e.attributionWeight)
            /\ IsFinite(e.attributionWeight)
            /\ FLeq(e.attributionWeight, Num(1))
            /\ \E k \in 1..Len(utmRecords) :
                  /\ utmRecords[k].id = e.utmRecordId
                  /\ utmRecords[k].contactId = e.contactId
                  /\ utmRecords[k].channel = e.channel
                  /\ utmRecords[k].source = e.source
                  /\ utmRecords[k].sourceDetail = e.sourceDetail

\* a recalculation added events next to those of an earlier creation, some
\* with a weight below 1, for touchpoints of different channels
C29_Witness ==
    /\ Recalculated
    /\ last.returned # <<>>
    /\ Len(attributionEvents) > Len(last.returned)
    /\ \E i, j \in 1..Len(attributionEvents) :
          /\ attributionEvents[i].attributionWeight # Num(1)
          /\ attributionEvents[i].channel # attributionEvents[j].channel

(***************************************************************************)
(* NormalizationService.validateParams.  An issue is the message pushed,   *)
(* with the key the encoding message is built from.                        *)
(***************************************************************************)
\* the keys of a parsed UTMParams object, in the order of the schema
FieldOrder == <<"utm_source", "utm_medium", "utm_campaign", "utm_term", "utm_content">>

MissingSource == [message |-> "Missing required utm_source parameter", key |-> "utm_source"]
TooShort == [message |-> "utm_source is too short", key |-> "utm_source"]
MayBeEncoded(key) ==
    [message |-> "may contain URL encoding that should be decoded", key |-> key]

RECURSIVE EncodingIssues(_, _)
\* the loop of validateParams over Object.entries(params) from entry i on
EncodingIssues(params, i) ==
    IF i > Len(FieldOrder) THEN <<>>
    ELSE LET key == FieldOrder[i]
             rest == EncodingIssues(params, i + 1)
         IN  IF /\ Truthy(params, key)
                /\ (Includes(params[key], <<"%">>) \/ Includes(params[key], <<"+">>))
             THEN <<MayBeEncoded(key)>> \o rest
             ELSE rest

validateParams_shortBelowThree(params) ==
    LET issues ==
            (IF ~Truthy(params, "utm_source") THEN <<MissingSource>> ELSE <<>>)
            \o (IF Truthy(params, "utm_source") /\ Len(params.utm_source) < 3
                THEN <<TooShort>> ELSE <<>>)
            \o EncodingIssues(params, 1)
    IN  [isValid |-> Len(issues) = 0, issues |-> issues]

validateParams(params) ==
    LET issues ==
            (IF ~Truthy(params, "utm_source") THEN <<MissingSource>> ELSE <<>>)
            \o (IF Truthy(params, "utm_source") /\ Len(params.utm_source) < 2
                THEN <<TooShort>> ELSE <<>>)
            \o EncodingIssues(params, 1)
    IN  [isValid |-> Len(issues) = 0, issues |-> issues]

\* the parameter objects validateParams is called with: any of four fields
\* may be absent, and each has one of the values listed for it
ValidateInputs ==
    LET FieldValues(field) ==
            CASE field = "utm_source" ->
                    {<<>>, <<"g">>, <<"g", "o">>, <<"%">>, <<"a", "+">>}
              [] field = "utm_medium" -> {<<"c", "p", "c">>, <<"c", "%", "c">>}
              [] field = "utm_campaign" -> {<<>>, <<"a", "+", "b">>, <<"s">>}
              [] OTHER -> {<<"%">>}
    IN  UNION { {params \in [present -> UNION {FieldValues(f) : f \in present}] :
                    \A f \in present : params[f] \in FieldValues(f)} :
                present \in SUBSET {"utm_source", "utm_medium", "utm_campaign", "utm_term"} }

\* normalizationService.validateParams(params)
ValidateParams ==
    /\ \E params \in ValidateInputs :
          last' = [op |-> "validateParams", params |-> params,
                   result |-> validateParams(params)]
    /\ UNCHANGED <<utmRecords, attributionEvents, normalizationRules, sourceMappings,
                   channelCosts, now, calls>>
    /\ UNCHANGED <<initialized, requests>>

NextValidate ==
    \/ StoreTouchpoint
    \/ ValidateParams

SpecValidate == Init /\ [][NextValidate]_vars

Validated == last.op = "validateParams"

\* the source field is absent or empty
NoSource == "utm_source" \notin DOMAIN last.params \/ last.params.utm_source = <<>>

\* the fields whose value contains % or +
EncodedFields ==
    {f \in DOMAIN last.params :
        \E i \in 1..Len(last.params[f]) : last.params[f][i] \in {"%", "+"}}

\* C25: validateParams returns isValid = true if and only if issues is
\* empty; issues holds the missing-source issue iff the source is absent or
\* empty, the too-short issue iff the source is there with fewer than 2
\* characters, one encoding issue for each field whose value contains % or
\* +, and nothing else; the call changes neither its argument nor the store.
C25_ValidateParams ==
    /\ [](Validated =>
            LET issues == last.result.issues
                Count(issue) == Cardinality({i \in 1..Len(issues) : issues[i] = issue})
            IN  /\ last.result.isValid <=> issues = <<>>
                /\ Count(MissingSource) = IF NoSource THEN 1 ELSE 0
                /\ Count(TooShort)
                      = IF ~NoSource /\ Len(last.params.utm_source) < 2 THEN 1 ELSE 0
                /\ \A f \in DOMAIN last.params :
                      Count(MayBeEncoded(f)) = IF f \in EncodedFields THEN 1 ELSE 0
                /\ Len(issues) = Count(MissingSource) + Count(TooShort)
                                    + Cardinality(EncodedFields))
    /\ [][last'.op = "validateParams" =>
              /\ last'.params \in ValidateInputs
              /\ UNCHANGED <<utmRecords, attributionEvents, normalizationRules,
                             sourceMappings, channelCosts>>]_vars

\* a one-character source next to two fields with encoded characters, with
\* touchpoints in the store: three issues
C25_Witness ==
    /\ Validated
    /\ utmRecords # <<>>
    /\ ~NoSource
    /\ Len(last.params.utm_source) = 1
    /\ Cardinality(EncodedFields) = 2
    /\ Len(last.result.issues) = 3
    /\ ~last.result.isValid

\* an empty source is reported as missing and not as too short
C25_WitnessEmptySource ==
    /\ Validated
    /\ "utm_source" \in DOMAIN last.params
    /\ last.params.utm_source = <<>>
    /\ last.result.issues = <<MissingSource>>

\* nothing to report
C25_WitnessValid ==
    /\ Validated
    /\ DOMAIN last.params = {"utm_source", "utm_medium", "utm_campaign"}
    /\ last.result.isValid

(***************************************************************************)
(* The ingestion pipeline: POST /api/utm and POST /api/utm/batch on the    *)
(* store as the server start leaves it.  The source and the source detail  *)
(* of a classification are character sequences, as formatSourceName builds *)
(* them; the channel is one of a fixed set of names.                       *)
(***************************************************************************)
\* DataStore.seedDefaults: the default rules and mappings, in insertion order
seedRules ==
    << [id |-> "norm-1", field |-> "utm_source", matchType |-> "exact", matchValue |-> <<"f", "b">>,
        normalizedValue |-> <<"f", "a", "c", "e", "b", "o", "o", "k">>, priority |-> 10, isActive |-> TRUE],
       [id |-> "norm-2", field |-> "utm_source", matchType |-> "exact", matchValue |-> <<"i", "g">>,
        normalizedValue |-> <<"i", "n", "s", "t", "a", "g", "r", "a", "m">>, priority |-> 10, isActive |-> TRUE],
       [id |-> "norm-3", field |-> "utm_source", matchType |-> "exact", matchValue |-> <<"t", "w">>,
        normalizedValue |-> <<"t", "w", "i", "t", "t", "e", "r">>, priority |-> 10, isActive |-> TRUE],
       [id |-> "norm-4", field |-> "utm_source", matchType |-> "exact", matchValue |-> <<"l", "i">>,
        normalizedValue |-> <<"l", "i", "n", "k", "e", "d", "i", "n">>, priority |-> 10, isActive |-> TRUE],
       [id |-> "norm-5", field |-> "utm_medium", matchType |-> "exact", matchValue |-> <<"c", "p", "c">>,
        normalizedValue |-> <<"p", "a", "i", "d">>, priority |-> 10, isActive |-> TRUE],
       [id |-> "norm-6", field |-> "utm_medium", matchType |-> "exact", matchValue |-> <<"p", "p", "c">>,
        normalizedValue |-> <<"p", "a", "i", "d">>, priority |-> 10, isActive |-> TRUE] >>

seedMappings ==
    << [id |-> "map-1", utmSource |-> <<"g", "o", "o", "g", "l", "e">>, utmMedium |-> <<"c", "p", "c">>,
        source |-> <<"G", "o", "o", "g", "l", "e", " ", "A", "d", "s">>,
        sourceDetail |-> <<"S", "e", "a", "r", "c", "h">>,
        channel |-> "Paid Search", priority |-> 10, isActive |-> TRUE],
       [id |-> "map-2", utmSource |-> <<"g", "o", "o", "g", "l", "e">>, utmMedium |-> <<"o", "r", "g", "a", "n", "i", "c">>,
        source |-> <<"G", "o", "o", "g", "l", "e">>,
        sourceDetail |-> <<"O", "r", "g", "a", "n", "i", "c", " ", "S", "e", "a", "r", "c", "h">>,
        channel |-> "Organic Search", priority |-> 10, isActive |-> TRUE],
       [id |-> "map-3", utmSource |-> <<"f", "a", "c", "e", "b", "o", "o", "k">>, utmMedium |-> <<"p", "a", "i", "d">>,
        source |-> <<"F", "a", "c", "e", "b", "o", "o", "k">>,
        sourceDetail |-> <<"P", "a", "i", "d", " ", "S", "o", "c", "i", "a", "l">>,
        channel |-> "Paid Social", priority |-> 10, isActive |-> TRUE],
       [id |-> "map-4", utmSource |-> <<"f", "a", "c", "e", "b", "o", "o", "k">>, utmMedium |-> <<"o", "r", "g", "a", "n", "i", "c">>,
        source |-> <<"F", "a", "c", "e", "b", "o", "o", "k">>,
        sourceDetail |-> <<"O", "r", "g", "a", "n", "i", "c", " ", "S", "o", "c", "i", "a", "l">>,
        channel |-> "Organic Social", priority |-> 10, isActive |-> TRUE],
       [id |-> "map-5", utmSource |-> <<"l", "i", "n", "k", "e", "d", "i", "n">>, utmMedium |-> <<"p", "a", "i", "d">>,
        source |-> <<"L", "i", "n", "k", "e", "d", "I", "n">>,
        sourceDetail |-> <<"P", "a", "i", "d", " ", "S", "o", "c", "i", "a", "l">>,
        channel |-> "Paid Social", priority |-> 10, isActive |-> TRUE],
       [id |-> "map-6", utmSource |-> <<"e", "m", "a", "i", "l">>,
        source |-> <<"E", "m", "a", "i", "l">>,
        sourceDetail |-> <<"N", "e", "w", "s", "l", "e", "t", "t", "e", "r">>,
        channel |-> "Email", priority |-> 5, isActive |-> TRUE],
       [id |-> "map-7", utmSource |-> <<"d", "i", "r", "e", "c", "t">>,
        source |-> <<"D", "i", "r", "e", "c", "t">>,
        sourceDetail |-> <<"D", "i", "r", "e", "c", "t", " ", "T", "r", "a", "f", "f", "i", "c">>,
        channel |-> "Direct", priority |-> 1, isActive |-> TRUE] >>

\* the schema-valid bodies that are posted: contactId and timestamp are
\* optional
IngestInputs ==
    { [contactId |-> "contact-1",
       params |-> SourceMedium(<<"g", "o", "o", "g", "l", "e">>, <<"c", "p", "c">>)],
      [contactId |-> "contact-1", timestamp |-> 0,
       params |-> [f \in {"utm_source", "utm_campaign"} |->
                      IF f = "utm_source" THEN <<"f">> ELSE <<"a", "+", "b">>]] }

\* the record POST /api/utm builds for a body, under the id it draws
IngestRecord(body, id) ==
    LET normalizedParams == normalize(body.params, normalizationRules).result
        mapping == mapToSource(normalizedParams, sourceMappings)
    IN  [id |-> id,
         contactId |-> IF "contactId" \in DOMAIN body THEN body.contactId ELSE None,
         dealId |-> None,
         originalParams |-> body.params, normalizedParams |-> normalizedParams,
         source |-> mapping.source, sourceDetail |-> mapping.sourceDetail,
         channel |-> mapping.channel,
         timestamp |-> IF "timestamp" \in DOMAIN body THEN body.timestamp ELSE now,
         revenue |-> 0]

\* the state after the server has started: defaults seeded, and the HubSpot
\* client created if an access token is configured
InitIngest ==
    /\ utmRecords = <<>>
    /\ attributionEvents = <<>>
    /\ normalizationRules = seedRules
    /\ sourceMappings = seedMappings
    /\ channelCosts = <<>>
    /\ now = 7
    /\ calls = 0
    /\ last = NoCall
    /\ initialized \in BOOLEAN
    /\ requests = <<>>

\* POST /api/utm up to the await of the sync, or to the response when no
\* sync is made
PostUtm_rejectsInvalid ==
    /\ Len(utmRecords) < MaxRecords
    /\ \E body \in IngestInputs :
          LET record == IngestRecord(body, Len(requests) + 1)
              validation == validateParams(body.params)
          IN  /\ utmRecords' = IF validation.isValid
                               THEN addUTMRecord(utmRecords, record) ELSE utmRecords
              /\ requests' = Append(requests,
                    [body |-> body, record |-> record, validation |-> validation,
                     seeded |-> normalizationRules = seedRules /\ sourceMappings = seedMappings,
                     sync |-> "none",
                     status |-> IF validation.isValid THEN 201 ELSE 400])
    /\ last' = NoCall
    /\ UNCHANGED <<attributionEvents, normalizationRules, sourceMappings, channelCosts,
                   now, calls, initialized>>

PostUtm ==
    /\ Len(utmRecords) < MaxRecords
    /\ \E body \in IngestInputs :
          LET record == IngestRecord(body, Len(requests) + 1)
              validation == validateParams(body.params)
              syncs == initialized /\ "contactId" \in DOMAIN body
          IN  /\ utmRecords' = addUTMRecord(utmRecords, record)
              /\ requests' = Append(requests,
                    [body |-> body, record |-> record, validation |-> validation,
                     seeded |-> normalizationRules = seedRules /\ sourceMappings = seedMappings,
                     sync |-> IF syncs THEN "pending" ELSE "none",
                     status |-> IF syncs THEN 0 ELSE 201])
    /\ last' = NoCall
    /\ UNCHANGED <<attributionEvents, normalizationRules, sourceMappings, channelCosts,
                   now, calls, initialized>>

\* the promise of hubspotService.syncContactProperties settles: the request
\* resumes, logs a rejection, and answers 201
SyncSettles ==
    /\ \E i \in 1..Len(requests), outcome \in {"resolved", "rejected"} :
          /\ requests[i].sync = "pending"
          /\ requests' = [requests EXCEPT ![i] =
                              [@ EXCEPT !.sync = outcome, !.status = 201]]
    /\ last' = NoCall
    /\ UNCHANGED <<utmRecords, attributionEvents, normalizationRules, sourceMappings,
                   channelCosts, now, calls, initialized>>

\* the batch that is posted
BatchInputs ==
    { << [contactId |-> "contact-2", timestamp |-> 0,
          params |-> SourceMedium(<<"g", "o", "o", "g", "l", "e">>, <<"c", "p", "c">>)],
         [contactId |-> "contact-2",
          params |-> SourceMedium(<<"e", "m", "a", "i", "l">>, <<"x", "%">>)] >> }

\* POST /api/utm/batch: the loop stores one record per entry
PostUtmBatch ==
    /\ \E batch \in BatchInputs :
          /\ Len(utmRecords) + Len(batch) <= MaxRecords
          /\ utmRecords' =
                addUTMRecord(
                    addUTMRecord(utmRecords,
                                 IngestRecord(batch[1], MaxRecords + 1)),
                    IngestRecord(batch[2], MaxRecords + 2))
    /\ last' = NoCall
    /\ UNCHANGED <<attributionEvents, normalizationRules, sourceMappings, channelCosts,
                   now, calls, initialized, requests>>

\* the edits of rules and mappings an administrator makes between
\* ingestions: PUT /api/normalization-rules/:id, PUT /api/source-mapping/:id
ClassificationEdits ==
    { [rule |-> "norm-5", mapping |-> "map-1", updates |-> [isActive |-> FALSE]] }

PutRule_reclassifies ==
    /\ \E edit \in ClassificationEdits :
          /\ normalizationRules' =
                updateNormalizationRule(normalizationRules, edit.rule, edit.updates)
          /\ normalizationRules' # normalizationRules
          /\ utmRecords' =
                [i \in 1..Len(utmRecords) |->
                    LET normalizedParams ==
                            normalize(utmRecords[i].originalParams, normalizationRules').result
                        mapping == mapToSource(normalizedParams, sourceMappings)
                    IN  [utmRecords[i] EXCEPT !.normalizedParams = normalizedParams,
                                              !.source = mapping.source,
                                              !.sourceDetail = mapping.sourceDetail,
                                              !.channel = mapping.channel]]
    /\ last' = NoCall
    /\ UNCHANGED <<attributionEvents, sourceMappings, channelCosts,
                   now, calls, initialized, requests>>

PutRule ==
    /\ \E edit \in ClassificationEdits :
          /\ normalizationRules' =
                updateNormalizationRule(normalizationRules, edit.rule, edit.updates)
          /\ normalizationRules' # normalizationRules
    /\ last' = NoCall
    /\ UNCHANGED <<utmRecords, attributionEvents, sourceMappings, channelCosts,
                   now, calls, initialized, requests>>

PutMapping ==
    /\ \E edit \in ClassificationEdits :
          /\ sourceMappings' =
                updateSourceMapping(sourceMappings, edit.mapping, edit.updates)
          /\ sourceMappings' # sourceMappings
    /\ last' = NoCall
    /\ UNCHANGED <<utmRecords, attributionEvents, normalizationRules, channelCosts,
                   now, calls, initialized, requests>>

\* a conversion of contact-1 is attributed, or its attribution is recalculated,
\* while requests are in flight: createAttribution and recalculateAttribution
\* have no await, so each call is one step
Attribute ==
    /\ calls < MaxCalls
    /\ \E req \in { [op |-> "createAttribution",
                      config |-> [model |-> "time_decay",
                                  timeDecayHalfLife |-> Rat(1, 2048)]],
                     [op |-> "recalculateAttribution",
                      config |-> [model |-> "first_touch",
                                  timeDecayHalfLife |-> NoHalfLife]] } :
          LET created == createAttribution("contact-1", None, Num(100), req.config, now)
              recalculated == recalculateAttribution("contact-1", req.config, now)
          IN  IF req.op = "createAttribution"
              THEN /\ attributionEvents' = created.store
                   /\ last' = CallRecord(req.op, "contact-1", TRUE, req.config, Num(100),
                                         <<>>, created.returned)
              ELSE /\ attributionEvents' = recalculated.store
                   /\ last' = CallRecord(req.op, "contact-1", TRUE, req.config,
                                         recalculated.revenue,
                                         getAttributionEventsByContact(attributionEvents,
                                                                       "contact-1"),
                                         recalculated.returned)
    /\ calls' = calls + 1
    /\ UNCHANGED <<utmRecords, normalizationRules, sourceMappings, channelCosts,
                   now, initialized, requests>>

NextIngest ==
    \/ PostUtm
    \/ SyncSettles
    \/ PostUtmBatch
    \/ PutRule
    \/ PutMapping
    \/ Attribute

SpecIngest == InitIngest /\ [][NextIngest]_vars

(***************************************************************************)
(* Properties of the ingestion pipeline.                                   *)
(***************************************************************************)
GoogleCpc == SourceMedium(<<"g", "o", "o", "g", "l", "e">>, <<"c", "p", "c">>)

\* C26: with the default seed rules and mappings in place, ingesting
\* {utm_source: google, utm_medium: cpc} stores a touchpoint classified by the
\* seeded google/cpc mapping: source 'Google Ads', source detail 'Search',
\* channel 'Paid Search'.
C26_SeededGoogleCpc ==
    \A i \in 1..Len(requests) :
        requests[i].seeded /\ requests[i].body.params = GoogleCpc
            => /\ requests[i].record.source
                    = <<"G", "o", "o", "g", "l", "e", " ", "A", "d", "s">>
               /\ requests[i].record.sourceDetail = <<"S", "e", "a", "r", "c", "h">>
               /\ requests[i].record.channel = "Paid Search"

\* the positions at which the touchpoint of a request is stored
StoredAt(request) ==
    {k \in 1..Len(utmRecords) : utmRecords[k].id = request.record.id}

\* C23: every schema-valid POST /api/utm adds exactly one touchpoint and
\* answers 201, whether or not validateParams reports issues and whether the
\* CRM sync resolves or rejects; the touchpoint is in the store while the sync
\* is pending and is still there, unchanged, after the sync has failed.
C23_IngestionAlwaysStores ==
    /\ \A i \in 1..Len(requests) :
          /\ Cardinality(StoredAt(requests[i])) = 1
          /\ \A k \in StoredAt(requests[i]) : utmRecords[k] = requests[i].record
          /\ requests[i].status = IF requests[i].sync = "pending" THEN 0 ELSE 201
    /\ Cardinality({k \in 1..Len(utmRecords) : utmRecords[k].id <= MaxRecords})
          = Len(requests)

\* a request whose parameters have issues and whose sync failed was answered
\* 201 with its touchpoint stored
C23_Witness ==
    \E i \in 1..Len(requests) :
        /\ ~requests[i].validation.isValid
        /\ requests[i].sync = "rejected"
        /\ requests[i].status = 201
        /\ \E k \in 1..Len(utmRecords) : utmRecords[k] = requests[i].record

\* a request is suspended at its sync with its touchpoint already stored
C23_WitnessPending ==
    \E i \in 1..Len(requests) :
        /\ requests[i].sync = "pending"
        /\ \E k \in 1..Len(utmRecords) : utmRecords[k] = requests[i].record

\* C24: touchpoints are append-only: no step of ingestion, batch ingestion,
\* attribution creation or recalculation, or rule or mapping edit removes a
\* stored touchpoint or changes any field of one; in particular an edit of
\* the rules or mappings re-classifies no stored touchpoint.
C24_TouchpointsAppendOnly ==
    [][/\ Len(utmRecords') >= Len(utmRecords)
       /\ \A k \in 1..Len(utmRecords) : utmRecords'[k] = utmRecords[k]]_vars

\* what the pipeline makes of raw parameters under the rules and mappings
\* of the current state
ClassifiedNow(params) ==
    mapToSource(normalize(params, normalizationRules).result, sourceMappings)

\* after an edit of the rules, a stored touchpoint keeps a classification
\* that the pipeline would no longer give it
C24_Witness ==
    /\ normalizationRules # seedRules
    /\ \E k \in 1..Len(utmRecords) :
          /\ utmRecords[k].originalParams = GoogleCpc
          /\ utmRecords[k].source = <<"G", "o", "o", "g", "l", "e">>
          /\ ClassifiedNow(GoogleCpc).source
                = <<"G", "o", "o", "g", "l", "e", " ", "A", "d", "s">>

\* the same raw parameters ingested before and after the edit are stored
\* side by side under the two classifications
C24_WitnessReingested ==
    \E k, j \in 1..Len(utmRecords) :
        /\ k < j
        /\ utmRecords[k].originalParams = GoogleCpc
        /\ utmRecords[j].originalParams = GoogleCpc
        /\ utmRecords[k].sourceDetail = <<"P", "a", "i", "d">>
        /\ utmRecords[j].sourceDetail = <<"S", "e", "a", "r", "c", "h">>

\* C30: with ingestion requests suspended at their sync, each
\* createAttribution or recalculateAttribution call on a contact with
\* touchpoints is one step: it appends its events to the events stored
\* before it, they point at touchpoints present when it started, which are
\* the touchpoints still stored for the contact, and their weights sum to 1.
C30_AttributionCallsAreAtomic ==
    CreationRan =>
        /\ last.touchpoints = getUTMRecordsByContact(utmRecords, last.contactId)
        /\ attributionEvents = last.before \o last.returned
        /\ \A i \in 1..Len(last.returned) :
              \E k \in 1..Len(last.touchpoints) :
                  last.touchpoints[k].id = last.returned[i].utmRecordId
        /\ FSum(WeightsOf(last.returned)) = Num(1)

=============================================================================
